---------------------------- MODULE Spec2Model ----------------------------
(***************************************************************************)
(* ALICE-View: the .alice container codec (decoder/alice.rs) and the       *)
(* decode orchestrator (decoder/mod.rs).                                   *)
(*                                                                         *)
(* Representation.  A byte is a number in 0..255 and a buffer a sequence   *)
(* of bytes.  Integers of the program are TLA+ integers; every integer a   *)
(* buffer of the model encodes is below 2^31.  An f32 is its bit pattern   *)
(* (a number), an f64 its bit pattern as four 16-bit limbs, least          *)
(* significant first.  Option<T> is <<>> (None) or <<v>> (Some(v)).        *)
(* A Result is a record with tag "Ok" (val) or "Err" (err); a call that    *)
(* panics yields tag "Panic".                                              *)
(***************************************************************************)
EXTENDS Integers, Sequences, FiniteSets, TLC

None == <<>>
Some(v) == <<v>>
IsSome(o) == o # <<>>
Unwrap(o) == o[1]

Ok(v) == [tag |-> "Ok", val |-> v]
Err(e) == [tag |-> "Err", err |-> e]
Panic == [tag |-> "Panic"]
IsOk(r) == r.tag = "Ok"
IsErr(r) == r.tag = "Err"
IsPanic(r) == r.tag = "Panic"

(***************************************************************************)
(* Integer <-> little-endian bytes (to_le_bytes / from_le_bytes).          *)
(* \div and % are floor division and modulus, so a negative i32 encodes as *)
(* its two's complement.                                                   *)
(***************************************************************************)
RECURSIVE to_le_bytes(_, _)
to_le_bytes(v, n) ==
    IF n = 0 THEN <<>> ELSE <<v % 256>> \o to_le_bytes(v \div 256, n - 1)

RECURSIVE from_le_bytes(_)
from_le_bytes(b) ==
    IF b = <<>> THEN 0 ELSE b[1] + 256 * from_le_bytes(Tail(b))

\* i32::from_le_bytes: the top byte carries the sign
i32_from_le_bytes(b) ==
    LET low == from_le_bytes(SubSeq(b, 1, 3))
        top == IF b[4] >= 128 THEN b[4] - 256 ELSE b[4]
    IN  top * 16777216 + low

\* f64::to_le_bytes / f64::from_le_bytes on the four-limb bit pattern
f64_to_le_bytes(x) ==
    to_le_bytes(x[1], 2) \o to_le_bytes(x[2], 2) \o
    to_le_bytes(x[3], 2) \o to_le_bytes(x[4], 2)

f64_from_le_bytes(b) ==
    << from_le_bytes(SubSeq(b, 1, 2)), from_le_bytes(SubSeq(b, 3, 4)),
       from_le_bytes(SubSeq(b, 5, 6)), from_le_bytes(SubSeq(b, 7, 8)) >>

\* Rust slice data[a..b] (0-based, end exclusive)
Slice(data, a, b) == SubSeq(data, a + 1, b)

(***************************************************************************)
(* Constants of decoder/alice.rs                                           *)
(***************************************************************************)
ALICE_MAGIC == <<65, 76, 73, 67, 69>>
ALICE_VERSION == 1
HeaderSIZE == 32
PerlinSIZE == 24
FractalSIZE == 45

\* f32 bit patterns of the literals the code uses
F32_0_5 == 1056964608
F32_2_0 == 1073741824
\* f64 bit patterns
F64_0_0 == <<0, 0, 0, 0>>
F64_m0_75 == <<0, 0, 0, 49128>>

(***************************************************************************)
(* AliceContentType                                                        *)
(***************************************************************************)
AliceContentTypeTry(value) ==
    CASE value = 0 -> Ok("Linear")
      [] value = 1 -> Ok("Polynomial")
      [] value = 2 -> Ok("Perlin")
      [] value = 3 -> Ok("Fractal")
      [] value = 4 -> Ok("Fourier")
      [] value = 5 -> Ok("Voronoi")
      [] value = 6 -> Ok("SineWave")
      [] OTHER -> Err("UnknownContentType")

AliceContentTypeAsU8(t) ==
    CASE t = "Linear" -> 0
      [] t = "Polynomial" -> 1
      [] t = "Perlin" -> 2
      [] t = "Fractal" -> 3
      [] t = "Fourier" -> 4
      [] t = "Voronoi" -> 5
      [] t = "SineWave" -> 6

(***************************************************************************)
(* AliceHeader                                                             *)
(***************************************************************************)
\* a faulty variant of AliceHeaderParse: the magic is compared before the length
AliceHeaderParseMagicFirst(data) ==
    IF Len(data) < 5 \/ SubSeq(data, 1, 5) # ALICE_MAGIC THEN Err("BadMagic")
    ELSE IF Len(data) < HeaderSIZE THEN Err("TooShort")
    ELSE LET ct == AliceContentTypeTry(data[7]) IN
         IF ~IsOk(ct) THEN Err(ct.err)
         ELSE Ok([magic |-> Slice(data, 0, 5),
                  version |-> data[6],
                  content_type |-> ct.val,
                  flags |-> data[8],
                  original_size |-> from_le_bytes(Slice(data, 8, 16)),
                  compressed_size |-> from_le_bytes(Slice(data, 16, 24)),
                  metadata_length |-> from_le_bytes(Slice(data, 24, 28))])

AliceHeaderParse(data) ==
    IF Len(data) < HeaderSIZE THEN Err("TooShort")
    ELSE LET magic == Slice(data, 0, 5) IN
         IF magic # ALICE_MAGIC THEN Err("BadMagic")
         ELSE LET ct == AliceContentTypeTry(data[7]) IN
              IF ~IsOk(ct) THEN Err(ct.err)
              ELSE Ok([magic |-> magic,
                       version |-> data[6],
                       content_type |-> ct.val,
                       flags |-> data[8],
                       original_size |-> from_le_bytes(Slice(data, 8, 16)),
                       compressed_size |-> from_le_bytes(Slice(data, 16, 24)),
                       metadata_length |-> from_le_bytes(Slice(data, 24, 28))])

\* a faulty variant of AliceHeaderToBytes: the two sizes are written in each other's place
AliceHeaderToBytesSwapped(h) ==
    h.magic \o <<h.version, AliceContentTypeAsU8(h.content_type), h.flags>> \o
    to_le_bytes(h.compressed_size, 8) \o
    to_le_bytes(h.original_size, 8) \o
    to_le_bytes(h.metadata_length, 4) \o
    <<0, 0, 0, 0>>

AliceHeaderToBytes(h) ==
    h.magic \o <<h.version, AliceContentTypeAsU8(h.content_type), h.flags>> \o
    to_le_bytes(h.original_size, 8) \o
    to_le_bytes(h.compressed_size, 8) \o
    to_le_bytes(h.metadata_length, 4) \o
    <<0, 0, 0, 0>>

has_metadata(h) == h.metadata_length > 0

\* A ratio of two sizes is kept as the fraction the code divides out, the
\* literal 1.0 as 1/1; the rounding of the float quotient is not modelled.
RatioOne == [num |-> 1, den |-> 1]

\* AliceHeader::compression_ratio
AliceHeader_compression_ratio(h) ==
    IF h.compressed_size > 0
    THEN [num |-> h.original_size, den |-> h.compressed_size]
    ELSE RatioOne

(***************************************************************************)
(* Payloads                                                                *)
(***************************************************************************)
\* a faulty variant of LinearPayloadParse: the 8-byte layout is refused
LinearPayloadParseNeeds12(data) ==
    IF Len(data) < 12 THEN Err("PayloadTooShort")
    ELSE Ok([kind |-> "Linear",
             slope_q16 |-> i32_from_le_bytes(Slice(data, 0, 4)),
             intercept_q16 |-> i32_from_le_bytes(Slice(data, 4, 8)),
             sample_count |-> from_le_bytes(Slice(data, 8, 12))])

\* a faulty variant of LinearPayloadParse: the sample count is read only from a payload
\* longer than 12 bytes
LinearPayloadParseOver12(data) ==
    IF Len(data) < 8 THEN Err("PayloadTooShort")
    ELSE Ok([kind |-> "Linear",
             slope_q16 |-> i32_from_le_bytes(Slice(data, 0, 4)),
             intercept_q16 |-> i32_from_le_bytes(Slice(data, 4, 8)),
             sample_count |-> IF Len(data) > 12
                              THEN from_le_bytes(Slice(data, 8, 12))
                              ELSE 0])

LinearPayloadParse(data) ==
    IF Len(data) < 8 THEN Err("PayloadTooShort")
    ELSE Ok([kind |-> "Linear",
             slope_q16 |-> i32_from_le_bytes(Slice(data, 0, 4)),
             intercept_q16 |-> i32_from_le_bytes(Slice(data, 4, 8)),
             sample_count |-> IF Len(data) >= 12
                              THEN from_le_bytes(Slice(data, 8, 12))
                              ELSE 0])

LinearPayloadToBytes(p) ==
    to_le_bytes(p.slope_q16, 4) \o to_le_bytes(p.intercept_q16, 4) \o
    to_le_bytes(p.sample_count, 4)

\* "v as i64" for an i32 v: the eight bytes of its sign extension (\div floors)
as_i64(v) == to_le_bytes(v, 8)

\* i64::wrapping_mul on the little-endian bytes: byte k of the product is the
\* k-th column sum of the schoolbook product plus the carry, and the carry
\* out of the eighth byte is dropped
RECURSIVE ColumnSum(_, _, _, _)
ColumnSum(a, b, k, i) ==
    IF i > k THEN 0 ELSE a[i] * b[k + 1 - i] + ColumnSum(a, b, k, i + 1)

RECURSIVE MulColumns(_, _, _, _)
MulColumns(a, b, k, carry) ==
    IF k > 8 THEN <<>>
    ELSE << (ColumnSum(a, b, k, 1) + carry) % 256 >> \o
         MulColumns(a, b, k + 1, (ColumnSum(a, b, k, 1) + carry) \div 256)

i64_wrapping_mul(a, b) == MulColumns(a, b, 1, 0)

\* "mx as i32": the low four bytes
i64_as_i32(b) == i32_from_le_bytes(SubSeq(b, 1, 4))

\* i32::wrapping_add on the little-endian bytes, the carry out of the fourth
\* byte dropped
RECURSIVE AddBytes(_, _, _, _)
AddBytes(a, b, k, carry) ==
    IF k > 4 THEN <<>>
    ELSE << (a[k] + b[k] + carry) % 256 >> \o
         AddBytes(a, b, k + 1, (a[k] + b[k] + carry) \div 256)

i32_wrapping_add(x, y) ==
    i32_from_le_bytes(AddBytes(to_le_bytes(x, 4), to_le_bytes(y, 4), 1, 0))

\* a faulty variant of evaluate: the product is cut one byte too high
evaluateHighBytes(p, x) ==
    [q16_val |-> i32_wrapping_add(
                    i32_from_le_bytes(
                        SubSeq(i64_wrapping_mul(as_i64(p.slope_q16), as_i64(x)),
                               2, 5)),
                    p.intercept_q16),
     divisor |-> 65536]

\* LinearPayload::evaluate: q16_val, and the f32 it returns as the quotient
\* q16_val as f32 / 65536.0 left unevaluated
evaluate(p, x) ==
    [q16_val |-> i32_wrapping_add(
                    i64_as_i32(i64_wrapping_mul(as_i64(p.slope_q16), as_i64(x))),
                    p.intercept_q16),
     divisor |-> 65536]

\* f32::abs of "v as f32 / 65536.0" for an i32 v, as <<whole part, 65536ths>>;
\* the negation is done on v + 1 so that i32::MIN stays in range.  The rounding
\* of "v as f32" above 2^24 is not modelled.
f32_abs(v) ==
    IF v >= 0 THEN <<v \div 65536, v % 65536>>
    ELSE LET m == -(v + 1) IN
         << (m \div 65536) + (IF m % 65536 = 65535 THEN 1 ELSE 0),
            ((m % 65536) + 1) % 65536 >>

\* x.abs() < 0.0001
NearZero(v) == f32_abs(v)[1] = 0 /\ f32_abs(v)[2] * 10000 < 65536

\* "{:.N}" of "v as f32 / 65536.0": a minus sign for a negative value, then
\* its magnitude with N decimals
Fmt(v, decimals) ==
    [minus |-> v < 0, magnitude |-> f32_abs(v), decimals |-> decimals]
\* "{:.N}" of its .abs()
FmtAbs(v, decimals) ==
    [minus |-> FALSE, magnitude |-> f32_abs(v), decimals |-> decimals]

\* a piece of literal text of a format string
Lit(t) == [text |-> t]

\* a faulty variant of equation_string: the intercept is tested before the slope
equation_string_intercept_first(p) ==
    IF NearZero(p.intercept_q16) THEN <<Lit("y = "), Fmt(p.slope_q16, 6), Lit("x")>>
    ELSE IF NearZero(p.slope_q16) THEN <<Lit("y = "), Fmt(p.intercept_q16, 4)>>
    ELSE IF p.intercept_q16 >= 0
    THEN <<Lit("y = "), Fmt(p.slope_q16, 6), Lit("x + "), Fmt(p.intercept_q16, 4)>>
    ELSE <<Lit("y = "), Fmt(p.slope_q16, 6), Lit("x - "), FmtAbs(p.intercept_q16, 4)>>

\* LinearPayload::equation_string: the pieces of the formatted text in order,
\* literal text as Lit records and numbers as Fmt records
equation_string(p) ==
    IF NearZero(p.slope_q16) THEN <<Lit("y = "), Fmt(p.intercept_q16, 4)>>
    ELSE IF NearZero(p.intercept_q16) THEN <<Lit("y = "), Fmt(p.slope_q16, 6), Lit("x")>>
    ELSE IF p.intercept_q16 >= 0
    THEN <<Lit("y = "), Fmt(p.slope_q16, 6), Lit("x + "), Fmt(p.intercept_q16, 4)>>
    ELSE <<Lit("y = "), Fmt(p.slope_q16, 6), Lit("x - "), FmtAbs(p.intercept_q16, 4)>>

PerlinPayloadParse(data) ==
    IF Len(data) < PerlinSIZE THEN Err("PayloadTooShort")
    ELSE Ok([kind |-> "Perlin",
             seed |-> from_le_bytes(Slice(data, 0, 8)),
             scale |-> from_le_bytes(Slice(data, 8, 12)),
             octaves |-> from_le_bytes(Slice(data, 12, 16)),
             persistence |-> from_le_bytes(Slice(data, 16, 20)),
             lacunarity |-> from_le_bytes(Slice(data, 20, 24))])

PerlinPayloadToBytes(p) ==
    to_le_bytes(p.seed, 8) \o to_le_bytes(p.scale, 4) \o
    to_le_bytes(p.octaves, 4) \o to_le_bytes(p.persistence, 4) \o
    to_le_bytes(p.lacunarity, 4)

FractalPayloadParse(data) ==
    IF Len(data) < FractalSIZE THEN Err("PayloadTooShort")
    ELSE Ok([kind |-> "Fractal",
             fractal_type |-> data[1],
             max_iterations |-> from_le_bytes(Slice(data, 1, 5)),
             escape_radius |-> from_le_bytes(Slice(data, 5, 9)),
             center_x |-> f64_from_le_bytes(Slice(data, 9, 17)),
             center_y |-> f64_from_le_bytes(Slice(data, 17, 25)),
             julia_cx |-> f64_from_le_bytes(Slice(data, 25, 33)),
             julia_cy |-> f64_from_le_bytes(Slice(data, 33, 41))])

FractalPayloadToBytes(p) ==
    <<p.fractal_type>> \o to_le_bytes(p.max_iterations, 4) \o
    to_le_bytes(p.escape_radius, 4) \o
    f64_to_le_bytes(p.center_x) \o f64_to_le_bytes(p.center_y) \o
    f64_to_le_bytes(p.julia_cx) \o f64_to_le_bytes(p.julia_cy)

\* the match on the payload variant in AliceFile::to_bytes and build()
PayloadToBytes(p) ==
    CASE p.kind = "Linear" -> LinearPayloadToBytes(p)
      [] p.kind = "Perlin" -> PerlinPayloadToBytes(p)
      [] p.kind = "Fractal" -> FractalPayloadToBytes(p)

(***************************************************************************)
(* AliceMetadata: a flat key extractor over the metadata text              *)
(***************************************************************************)
QUOTE == 34

KeySensorId == <<34, 115, 101, 110, 115, 111, 114, 95, 105, 100, 34, 58, 34>>
KeyTimestamp == <<34, 116, 105, 109, 101, 115, 116, 97, 109, 112, 34, 58, 34>>
KeyLocation == <<34, 108, 111, 99, 97, 116, 105, 111, 110, 34, 58, 34>>
KeyUnit == <<34, 117, 110, 105, 116, 34, 58, 34>>
KeyDescription ==
    <<34, 100, 101, 115, 99, 114, 105, 112, 116, 105, 111, 110, 34, 58, 34>>

MetadataDefault ==
    [sensor_id |-> None, timestamp |-> None, location |-> None,
     unit |-> None, description |-> None, custom |-> None]

\* std::str::from_utf8(data).is_ok()
IsCont(b) == b \in 128..191

RECURSIVE Utf8Valid(_)
Utf8Valid(s) ==
    IF s = <<>> THEN TRUE
    ELSE LET b == s[1]
             n == Len(s)
         IN  IF b < 128 THEN Utf8Valid(Tail(s))
             ELSE IF b \in 194..223
                  THEN n >= 2 /\ IsCont(s[2]) /\ Utf8Valid(SubSeq(s, 3, n))
             ELSE IF b \in 224..239
                  THEN /\ n >= 3
                       /\ s[2] \in (IF b = 224 THEN 160..191
                                    ELSE IF b = 237 THEN 128..159
                                    ELSE 128..191)
                       /\ IsCont(s[3])
                       /\ Utf8Valid(SubSeq(s, 4, n))
             ELSE IF b \in 240..244
                  THEN /\ n >= 4
                       /\ s[2] \in (IF b = 240 THEN 144..191
                                    ELSE IF b = 244 THEN 128..143
                                    ELSE 128..191)
                       /\ IsCont(s[3]) /\ IsCont(s[4])
                       /\ Utf8Valid(SubSeq(s, 5, n))
             ELSE FALSE

\* str::find: byte offset of the first match, -1 for None
Find(h, needle) ==
    LET idx == {i \in 0..(Len(h) - Len(needle)) :
                    SubSeq(h, i + 1, i + Len(needle)) = needle}
    IN  IF idx = {} THEN -1
        ELSE CHOOSE i \in idx : \A j \in idx : i <= j

\* a faulty variant of ExtractField: the value runs to the last quote of the text
ExtractFieldToLastQuote(json_str, key, off) ==
    LET start == Find(json_str, key) IN
    IF start < 0 THEN None
    ELSE LET rest == Slice(json_str, start + off, Len(json_str))
             ends == {i \in 0..(Len(rest) - 1) : rest[i + 1] = QUOTE}
         IN  IF ends = {} THEN None
             ELSE Some(Slice(rest, 0, CHOOSE i \in ends : \A j \in ends : j <= i))

\* one "if let Some(start) = json_str.find(key) { ... }" block of parse
ExtractField(json_str, key, off) ==
    LET start == Find(json_str, key) IN
    IF start < 0 THEN None
    ELSE LET rest == Slice(json_str, start + off, Len(json_str))
             end == Find(rest, <<QUOTE>>)
         IN  IF end < 0 THEN None ELSE Some(Slice(rest, 0, end))

\* a faulty variant of AliceMetadataParse: bytes that are not UTF-8 give the
\* all-empty value
AliceMetadataParseLossy(data) ==
    IF data = <<>> \/ ~Utf8Valid(data) THEN Ok(MetadataDefault)
    ELSE Ok([sensor_id |-> ExtractField(data, KeySensorId, 13),
             timestamp |-> ExtractField(data, KeyTimestamp, 13),
             location |-> ExtractField(data, KeyLocation, 12),
             unit |-> ExtractField(data, KeyUnit, 8),
             description |-> ExtractField(data, KeyDescription, 15),
             custom |-> Some(data)])

AliceMetadataParse(data) ==
    IF data = <<>> THEN Ok(MetadataDefault)
    ELSE IF ~Utf8Valid(data) THEN Err("InvalidEncoding")
    ELSE Ok([sensor_id |-> ExtractField(data, KeySensorId, 13),
             timestamp |-> ExtractField(data, KeyTimestamp, 13),
             location |-> ExtractField(data, KeyLocation, 12),
             unit |-> ExtractField(data, KeyUnit, 8),
             description |-> ExtractField(data, KeyDescription, 15),
             custom |-> Some(data)])

\* format!("\"key\":\"{}\"", v) for a present field, nothing for an absent one
JsonPart(key, o) ==
    IF IsSome(o) THEN << key \o Unwrap(o) \o <<QUOTE>> >> ELSE <<>>

RECURSIVE JoinComma(_)
JoinComma(parts) ==
    IF parts = <<>> THEN <<>>
    ELSE IF Len(parts) = 1 THEN parts[1]
    ELSE parts[1] \o <<44>> \o JoinComma(Tail(parts))

AliceMetadataToJson(m) ==
    LET parts == JsonPart(KeySensorId, m.sensor_id) \o
                 JsonPart(KeyTimestamp, m.timestamp) \o
                 JsonPart(KeyLocation, m.location) \o
                 JsonPart(KeyUnit, m.unit) \o
                 JsonPart(KeyDescription, m.description)
    IN  <<123>> \o JoinComma(parts) \o <<125>>

(***************************************************************************)
(* AliceFile                                                               *)
(***************************************************************************)
\* the match on header.content_type in AliceFile::parse
PayloadParse(content_type, payload_data) ==
    CASE content_type = "Linear" -> LinearPayloadParse(payload_data)
      [] content_type = "Perlin" -> PerlinPayloadParse(payload_data)
      [] content_type = "Fractal" -> FractalPayloadParse(payload_data)
      [] OTHER -> Err("UnsupportedContentType")

\* data.len() - header.metadata_length as usize is an unsigned subtraction:
\* when metadata_length > data.len() it panics on overflow (checked build)
\* or wraps to a value above data.len(), and then the slice
\* data[payload_start..payload_end] panics.  Either way the call panics.
AliceFileParse(data) ==
    LET hr == AliceHeaderParse(data) IN
    IF ~IsOk(hr) THEN hr
    ELSE LET header == hr.val IN
         IF header.metadata_length > Len(data) THEN Panic
         ELSE LET payload_start == HeaderSIZE
                  payload_end == Len(data) - header.metadata_length
              IN  IF payload_end < payload_start
                  THEN Err("InvalidPayloadBounds")
                  ELSE LET pr == PayloadParse(header.content_type,
                                     Slice(data, payload_start, payload_end))
                       IN  IF ~IsOk(pr) THEN pr
                           ELSE LET mr == IF has_metadata(header)
                                          THEN AliceMetadataParse(
                                                 Slice(data, payload_end, Len(data)))
                                          ELSE Ok(MetadataDefault)
                                IN  IF ~IsOk(mr) THEN mr
                                    ELSE Ok([header |-> header,
                                             payload |-> pr.val,
                                             metadata |-> mr.val])

\* a faulty variant of AliceFileToBytes: the metadata bytes are not appended
AliceFileToBytesNoMetadata(f) ==
    LET payload_bytes == PayloadToBytes(f.payload)
        meta_bytes == AliceMetadataToJson(f.metadata)
        header == [f.header EXCEPT !.metadata_length = Len(meta_bytes)]
    IN  AliceHeaderToBytes(header) \o payload_bytes

AliceFileToBytes(f) ==
    LET payload_bytes == PayloadToBytes(f.payload)
        meta_bytes == AliceMetadataToJson(f.metadata)
        header == [f.header EXCEPT !.metadata_length = Len(meta_bytes)]
    IN  AliceHeaderToBytes(header) \o payload_bytes \o meta_bytes

(***************************************************************************)
(* AliceFileBuilder                                                        *)
(***************************************************************************)
BuilderNew(content_type) ==
    [content_type |-> content_type, original_size |-> 0,
     payload |-> None, metadata |-> MetadataDefault]

from_linear(slope_q16, intercept_q16, sample_count) ==
    [BuilderNew("Linear") EXCEPT
        !.original_size = sample_count * 4,
        !.payload = Some([kind |-> "Linear", slope_q16 |-> slope_q16,
                          intercept_q16 |-> intercept_q16,
                          sample_count |-> sample_count])]

mandelbrot(max_iterations, center_x, center_y) ==
    [BuilderNew("Fractal") EXCEPT
        !.payload = Some([kind |-> "Fractal", fractal_type |-> 0,
                          max_iterations |-> max_iterations,
                          escape_radius |-> F32_2_0,
                          center_x |-> center_x, center_y |-> center_y,
                          julia_cx |-> F64_0_0, julia_cy |-> F64_0_0])]

julia(max_iterations, cx, cy) ==
    [BuilderNew("Fractal") EXCEPT
        !.payload = Some([kind |-> "Fractal", fractal_type |-> 1,
                          max_iterations |-> max_iterations,
                          escape_radius |-> F32_2_0,
                          center_x |-> F64_0_0, center_y |-> F64_0_0,
                          julia_cx |-> cx, julia_cy |-> cy])]

perlin(seed, scale, octaves) ==
    [BuilderNew("Perlin") EXCEPT
        !.payload = Some([kind |-> "Perlin", seed |-> seed, scale |-> scale,
                          octaves |-> octaves, persistence |-> F32_0_5,
                          lacunarity |-> F32_2_0])]

with_metadata(b, metadata) == [b EXCEPT !.metadata = metadata]
sensor_id(b, id) == [b EXCEPT !.metadata.sensor_id = Some(id)]
timestamp(b, ts) == [b EXCEPT !.metadata.timestamp = Some(ts)]
unit(b, u) == [b EXCEPT !.metadata.unit = Some(u)]

\* a faulty variant of build: the header's content type is always Linear
buildLinearHeader(b) ==
    IF ~IsSome(b.payload) THEN Err("MissingPayload")
    ELSE LET payload == Unwrap(b.payload)
             payload_bytes == PayloadToBytes(payload)
             meta_bytes == AliceMetadataToJson(b.metadata)
             compressed_size == HeaderSIZE + Len(payload_bytes) + Len(meta_bytes)
         IN  Ok([header |-> [magic |-> ALICE_MAGIC,
                             version |-> ALICE_VERSION,
                             content_type |-> "Linear",
                             flags |-> 0,
                             original_size |-> IF b.original_size > 0
                                               THEN b.original_size
                                               ELSE compressed_size * 100,
                             compressed_size |-> compressed_size,
                             metadata_length |-> Len(meta_bytes)],
                 payload |-> payload,
                 metadata |-> b.metadata])

build(b) ==
    IF ~IsSome(b.payload) THEN Err("MissingPayload")
    ELSE LET payload == Unwrap(b.payload)
             payload_bytes == PayloadToBytes(payload)
             meta_bytes == AliceMetadataToJson(b.metadata)
             compressed_size == HeaderSIZE + Len(payload_bytes) + Len(meta_bytes)
         IN  Ok([header |-> [magic |-> ALICE_MAGIC,
                             version |-> ALICE_VERSION,
                             content_type |-> b.content_type,
                             flags |-> 0,
                             original_size |-> IF b.original_size > 0
                                               THEN b.original_size
                                               ELSE compressed_size * 100,
                             compressed_size |-> compressed_size,
                             metadata_length |-> Len(meta_bytes)],
                 payload |-> payload,
                 metadata |-> b.metadata])

(***************************************************************************)
(* Paths.  A path is its file name split at the dots: "model.asdf.json" is *)
(* <<"model", "asdf", "json">> and ".asdf" is <<"", "asdf">>.              *)
(***************************************************************************)
\* Path::extension(): None without a dot, None for a dot-file with no other
\* dot, otherwise the text after the last dot; unwrap_or("")
Extension(p) ==
    IF Len(p) < 2 THEN ""
    ELSE IF Len(p) = 2 /\ p[1] = "" THEN ""
    ELSE p[Len(p)]

\* str::to_lowercase on the extensions the model uses
ToLowercase(e) ==
    CASE e = "ASDF" -> "asdf"
      [] e = "JSON" -> "json"
      [] e = "ALICE" -> "alice"
      [] e = "PNG" -> "png"
      [] OTHER -> e

\* path_str.ends_with(".asdf") / path_str.ends_with(".asdf.json")
EndsWithAsdf(p) == Len(p) >= 2 /\ p[Len(p)] = "asdf"
EndsWithAsdfJson(p) ==
    Len(p) >= 3 /\ p[Len(p) - 1] = "asdf" /\ p[Len(p)] = "json"

(***************************************************************************)
(* The files on disk.  data is the file's bytes; scene is what the         *)
(* scene-description loader (alice_sdf::load) makes of the file, None when *)
(* it rejects it; image is what image::open makes of it.                   *)
(***************************************************************************)
Str_TEMP == <<84, 69, 77, 80, 45, 48, 48, 49>>
Str_degC == <<194, 176, 67>>
\* n bytes of a region the codec may decode, and n bytes of one it never decodes
Filler(n) == [i \in 1..n |-> 0]
Junk(n) == [i \in 1..n |-> 120]

PlainFile(path, data) ==
    [path |-> path, data |-> data, scene |-> None, image |-> None]

LinearFileBytes ==
    AliceFileToBytes(
        build(unit(sensor_id(from_linear(32767, 163824115, 1000), Str_TEMP),
                   Str_degC)).val)
NegLinearFileBytes == AliceFileToBytes(build(from_linear(-3, -65536, 0)).val)
PerlinFileBytes == AliceFileToBytes(build(perlin(42, F32_2_0, 4)).val)
MandelbrotFileBytes ==
    AliceFileToBytes(build(mandelbrot(256, F64_m0_75, F64_0_0)).val)
\* a Fractal container whose payload region has the 45 bytes the parser asks for
PaddedFractalBytes(fractal_type) ==
    AliceHeaderToBytes([magic |-> ALICE_MAGIC, version |-> 1,
                        content_type |-> "Fractal", flags |-> 0,
                        original_size |-> 7700, compressed_size |-> 77,
                        metadata_length |-> 0]) \o
    <<fractal_type>> \o to_le_bytes(100, 4) \o to_le_bytes(F32_2_0, 4) \o
    f64_to_le_bytes(<<1, 2, 3, 4>>) \o f64_to_le_bytes(<<5, 6, 7, 8>>) \o
    f64_to_le_bytes(<<9, 10, 11, 12>>) \o f64_to_le_bytes(<<13, 14, 15, 16>>) \o
    <<0, 0, 0, 0>>
\* a complete header with the given tag and metadata length, then n more bytes
RawFileBytes(tag, metadata_length, n) ==
    ALICE_MAGIC \o <<1, tag, 0>> \o to_le_bytes(4000, 8) \o
    to_le_bytes(32 + n, 8) \o to_le_bytes(metadata_length, 4) \o
    <<0, 0, 0, 0>> \o Filler(n)

\* a Linear container whose header gives compressed_size 0
ZeroSizeFileBytes ==
    AliceHeaderToBytes([magic |-> ALICE_MAGIC, version |-> 1,
                        content_type |-> "Linear", flags |-> 0,
                        original_size |-> 4000, compressed_size |-> 0,
                        metadata_length |-> 0]) \o
    <<3, 0, 0, 0, 5, 0, 0, 0, 7, 0, 0, 0>>

FileTable ==
    { PlainFile(<<"linear", "alice">>, LinearFileBytes),
      PlainFile(<<"neg", "alz">>, NegLinearFileBytes),
      PlainFile(<<"perlin", "alice">>, PerlinFileBytes),
      PlainFile(<<"mandel", "alice">>, MandelbrotFileBytes),
      PlainFile(<<"julia", "alice">>, PaddedFractalBytes(1)),
      PlainFile(<<"odd", "alice">>, PaddedFractalBytes(9)),
      PlainFile(<<"ship", "alice">>, PaddedFractalBytes(2)),
      PlainFile(<<"legacy", "alz">>, Junk(7)),
      PlainFile(<<"empty", "alice">>, <<>>),
      PlainFile(<<"tiny", "alice">>, <<65, 76, 73>>),
      PlainFile(<<"magiconly", "alice">>, ALICE_MAGIC \o <<1, 1>>),
      PlainFile(<<"poly", "alice">>, RawFileBytes(1, 0, 12)),
      PlainFile(<<"sine", "alz">>, RawFileBytes(6, 0, 0)),
      PlainFile(<<"polyhuge", "alice">>, RawFileBytes(4, 33, 0)),
      PlainFile(<<"polymeta", "alice">>, RawFileBytes(1, 5, 0)),
      PlainFile(<<"linhuge", "alice">>, RawFileBytes(0, 100, 12)),
      PlainFile(<<"tag99", "alice">>, RawFileBytes(99, 0, 12)),
      PlainFile(<<"badmeta", "alice">>, RawFileBytes(0, 1, 8) \o <<255>>),
      PlainFile(<<"zerosize", "alice">>, ZeroSizeFileBytes),
      PlainFile(<<"perlin", "ALICE">>, PerlinFileBytes),
      PlainFile(<<"stream", "asp">>, Junk(5)),
      PlainFile(<<"movie", "mp4">>, Junk(9)),
      PlainFile(<<"notes", "txt">>, Junk(2)),
      PlainFile(<<"README">>, Junk(2)),
      PlainFile(<<"broken", "png">>, Junk(4)),
      PlainFile(<<"broken", "asdf">>, Junk(4)),
      PlainFile(<<"", "asdf">>, Junk(4)),
      [path |-> <<"photo", "png">>, data |-> Junk(20), scene |-> None,
       image |-> Some([width |-> 2, height |-> 3])],
      [path |-> <<"photo", "PNG">>, data |-> Junk(20), scene |-> None,
       image |-> Some([width |-> 2, height |-> 3])],
      [path |-> <<"scene", "asdf">>, data |-> Junk(10),
       scene |-> Some([node_count |-> 3]), image |-> None],
      [path |-> <<"scene", "asdf", "json">>, data |-> Junk(30),
       scene |-> Some([node_count |-> 5]), image |-> None],
      [path |-> <<"scene", "json">>, data |-> Junk(30),
       scene |-> Some([node_count |-> 5]), image |-> None],
      [path |-> <<"scene", "ASDF">>, data |-> Junk(10),
       scene |-> Some([node_count |-> 3]), image |-> None],
      [path |-> <<"scene", "JSON">>, data |-> Junk(30),
       scene |-> Some([node_count |-> 5]), image |-> None] }

MissingPaths ==
    { <<"missing", "alice">>, <<"missing", "asdf">>, <<"missing", "png">>,
      <<"missing", "asp">>, <<"missing", "json">> }

Paths == {f.path : f \in FileTable} \cup MissingPaths

Exists(p) == \E f \in FileTable : f.path = p
FileOf(p) == CHOOSE f \in FileTable : f.path = p
\* what the file system holds at path p, None when there is no such file.
\* The operators of the decoder take it as their argument f: it is what
\* fs::read, fs::metadata, image::open and alice_sdf::load find at the path.
Stat(p) == IF Exists(p) THEN Some(FileOf(p)) ELSE None
\* fs::metadata(path).len()
FileSize(f) == Len(Unwrap(f).data)


(***************************************************************************)
(* Decoder (decoder/mod.rs)                                                *)
(***************************************************************************)
VARIABLES
    decoder,    \* the Decoder struct
    tokio,      \* whether the thread calling load() is inside a Tokio runtime
    pre,        \* the Decoder as it was when the last load() was called
    arg,        \* Option: the path given to the last load()
    ret,        \* Option: what the last load() returned (or that it panicked)
    route,      \* which function the last load() handed the path to
    channel,    \* Ui: the paths in the file-loader channel, oldest first
    sent,       \* Ui: every path sent into the channel so far, in send order
    started,    \* Ui: every path decoder.load was called with, in call order
    returned,   \* Ui: how many of those calls have returned
    pc,         \* Ui: where the control thread is
    dialogs,    \* Ui: how many file-dialog threads are running
    window,     \* App: window.is_some() (and renderer.is_some())
    pending_wgsl,       \* Ui: Option, the WGSL waiting for the renderer
    has_dynamic_sdf,    \* SdfPanel: the dynamic-scene flag
    current_file_info,  \* Ui: Option, the file-info record
    pipeline,   \* Renderer: Option, the WGSL its scene pipeline was rebuilt with
    rebuilds,   \* Renderer: how many times the scene pipeline was rebuilt
    frame,      \* Renderer: Option, the scene of the decoder and the pipeline
                \* at the last frame rendered
    op,         \* codec exercise: the operation applied last
    input,      \* codec exercise: its input
    output      \* codec exercise: its result

vars ==
    <<decoder, tokio, pre, arg, ret, route, channel, sent, started, returned, pc,
      dialogs, window, pending_wgsl, has_dynamic_sdf, current_file_info,
      pipeline, rebuilds, frame, op, input, output>>
decoderVars == <<decoder, tokio, pre, arg, ret, route>>
viewVars ==
    <<window, pending_wgsl, has_dynamic_sdf, current_file_info, pipeline,
      rebuilds, frame>>
uiVars == <<channel, sent, started, returned, pc, dialogs, viewVars>>
codecVars == <<op, input, output>>

DecoderNew ==
    [content_type |-> "None", content |-> None, file_path |-> None,
     original_size |-> 0, compressed_size |-> 0,
     alice_file |-> None, sdf_content |-> None]

\* "x as u64" as four 16-bit limbs, least significant first; \div and % floor,
\* so a negative i32 is sign-extended
RECURSIVE Limbs(_, _)
Limbs(v, n) ==
    IF n = 0 THEN <<>> ELSE <<v % 65536>> \o Limbs(v \div 65536, n - 1)

AsU64(v) == Limbs(v, 4)

\* a faulty variant of Decoder_compression_ratio: the division is not guarded
Decoder_compression_ratio_unguarded(d) ==
    [num |-> d.original_size, den |-> d.compressed_size]

\* Decoder::compression_ratio
Decoder_compression_ratio(d) ==
    IF d.compressed_size > 0
    THEN [num |-> d.original_size, den |-> d.compressed_size]
    ELSE RatioOne

\* alice_sdf::load(path): the external scene-description loader
AliceSdfLoad(f) ==
    IF ~IsSome(f) THEN Err("IoFailure")
    ELSE IF ~IsSome(Unwrap(f).scene) THEN Err("SceneLoaderError")
    ELSE Ok(Unwrap(Unwrap(f).scene))

SdfContentLoad(p, f) ==
    LET extension == Extension(p)
        tree == IF EndsWithAsdfJson(p) THEN AliceSdfLoad(f)
                ELSE IF extension = "asdf" THEN AliceSdfLoad(f)
                ELSE Err("UnknownSdfFormat")
    IN  IF ~IsOk(tree) THEN tree
        ELSE Ok([tree |-> p, node_count |-> tree.val.node_count])

\* the first three assignments of load_asdf_sync and of load_async
BeginLoad(d, p) ==
    [d EXCEPT !.file_path = Some(p), !.alice_file = None, !.sdf_content = None]

\* a faulty variant of CommitSdf: the content of the earlier load is not cleared
CommitSdfKeepsContent(d, sdf_content, file_size) ==
    [d EXCEPT !.sdf_content = Some(sdf_content),
              !.content_type = "AliceSdf",
              !.original_size = file_size * 100,
              !.compressed_size = file_size]

\* the five assignments ending load_asdf_sync and load_asdf_async
CommitSdf(d, sdf_content, file_size) ==
    [d EXCEPT !.sdf_content = Some(sdf_content),
              !.content_type = "AliceSdf",
              !.content = None,
              !.original_size = file_size * 100,
              !.compressed_size = file_size]

load_asdf_sync(d, p, f) ==
    LET d1 == BeginLoad(d, p)
        sr == SdfContentLoad(p, f)
    IN  IF ~IsOk(sr) THEN [dec |-> d1, ret |-> sr]
        ELSE [dec |-> CommitSdf(d1, sr.val, FileSize(f)), ret |-> Ok("unit")]

\* tokio::task::spawn_blocking and tokio::fs::* panic when the calling thread
\* is not inside a Tokio runtime; pollster::block_on provides none
load_asdf_async(d1, p, f, rt) ==
    IF ~rt THEN [dec |-> d1, ret |-> Panic]
    ELSE LET sr == SdfContentLoad(p, f) IN
         IF ~IsOk(sr) THEN [dec |-> d1, ret |-> sr]
         ELSE [dec |-> CommitSdf(d1, sr.val, FileSize(f)), ret |-> Ok("unit")]

\* the match on p.fractal_type in load_alice_async
FractalTypeOf(t) ==
    CASE t = 0 -> "Mandelbrot"
      [] t = 1 -> "Julia"
      [] t = 2 -> "BurningShip"
      [] t = 3 -> "Tricorn"
      [] OTHER -> "Mandelbrot"

\* the match on alice_file.payload in load_alice_async
ContentOfPayload(p) ==
    CASE p.kind = "Linear" ->
            [kind |-> "Perlin",
             seed |-> AsU64(p.slope_q16),
             scale |-> <<"abs_slope_f32_times_10_plus_1", p.slope_q16>>,
             octaves |-> 6,
             persistence |-> F32_0_5,
             lacunarity |-> F32_2_0]
      [] p.kind = "Perlin" ->
            [kind |-> "Perlin",
             seed |-> AsU64(p.seed),
             scale |-> <<"bits", p.scale>>,
             octaves |-> p.octaves,
             persistence |-> p.persistence,
             lacunarity |-> p.lacunarity]
      [] p.kind = "Fractal" ->
            [kind |-> "Fractal",
             fractal_type |-> FractalTypeOf(p.fractal_type),
             max_iterations |-> p.max_iterations,
             escape_radius |-> p.escape_radius,
             center |-> <<p.center_x, p.center_y>>,
             julia_c |-> IF p.fractal_type = 1
                         THEN Some(<<p.julia_cx, p.julia_cy>>)
                         ELSE None]

\* the content of the legacy fallback
DefaultMandelbrot ==
    [kind |-> "Fractal", fractal_type |-> "Mandelbrot", max_iterations |-> 256,
     escape_radius |-> F32_2_0, center |-> <<F64_m0_75, F64_0_0>>,
     julia_c |-> None]

Loaded(content, c_type, o_size, c_size, alice_file) ==
    Ok([content |-> content, c_type |-> c_type, o_size |-> o_size,
        c_size |-> c_size, alice_file |-> alice_file])

\* load_alice_async on a file that starts with the magic: "?" on the parse
\* result fr, then the content of its payload and the sizes of its header
LoadedContainer(fr) ==
    IF ~IsOk(fr) THEN fr
    ELSE Loaded(ContentOfPayload(fr.val.payload), "AliceZip",
                fr.val.header.original_size,
                fr.val.header.compressed_size, Some(fr.val))

load_alice_async(p, f, rt) ==
    IF ~rt THEN Panic
    ELSE IF ~IsSome(f) THEN Err("IoFailure")
    ELSE LET data == Unwrap(f).data IN
         IF Len(data) >= 5 /\ Slice(data, 0, 5) = ALICE_MAGIC
         THEN LoadedContainer(AliceFileParse(data))
         ELSE LET compressed_size == FileSize(f) IN
              Loaded(DefaultMandelbrot, "AliceZip", compressed_size * 500,
                     compressed_size, None)

load_asp_async(p, f, rt) ==
    IF ~rt THEN Panic
    ELSE IF ~IsSome(f) THEN Err("IoFailure")
    ELSE LET compressed_size == FileSize(f) IN
         Loaded([kind |-> "Perlin", seed |-> AsU64(12345),
                 scale |-> <<"literal", "5.0">>, octaves |-> 8,
                 persistence |-> F32_0_5, lacunarity |-> F32_2_0],
                "AspStream", compressed_size * 1000, compressed_size, None)

load_image_async(p, f, rt) ==
    IF ~rt THEN Panic
    ELSE IF ~IsSome(f) THEN Err("IoFailure")
    ELSE IF ~IsSome(Unwrap(f).image) THEN Err("ImageError")
    ELSE LET img == Unwrap(Unwrap(f).image) IN
         Loaded([kind |-> "Raster", width |-> img.width,
                 height |-> img.height, data |-> p],
                "Image", img.width * img.height * 4, FileSize(f), None)

\* the match on the lower-cased extension in load_async
LoadByExtension(extension, p, f, rt) ==
    CASE extension \in {"alz", "alice"} -> load_alice_async(p, f, rt)
      [] extension = "asp" -> load_asp_async(p, f, rt)
      [] extension \in {"png", "jpg", "jpeg", "bmp", "gif"} ->
            load_image_async(p, f, rt)
      [] extension \in {"mp4", "webm", "avi", "mov"} -> Err("UnsupportedFormat")
      [] OTHER -> Err("UnsupportedFormat")

\* the end of load_async: "?" on the result r of the match, then the five
\* assignments from the tuple it returned
CommitLoaded(d1, r) ==
    IF ~IsOk(r) THEN [dec |-> d1, ret |-> r]
    ELSE [dec |-> [d1 EXCEPT !.content = Some(r.val.content),
                             !.content_type = r.val.c_type,
                             !.original_size = r.val.o_size,
                             !.compressed_size = r.val.c_size,
                             !.alice_file = r.val.alice_file],
          ret |-> Ok("unit")]

load_async(d, p, f, rt) ==
    LET extension == ToLowercase(Extension(p))
        d1 == BeginLoad(d, p)
    IN  IF EndsWithAsdfJson(p) \/ EndsWithAsdf(p) \/ extension = "json"
        THEN load_asdf_async(d1, p, f, rt)
        ELSE CommitLoaded(d1, LoadByExtension(extension, p, f, rt))

\* the outcome r of the function load() handed the path to, with its name
Entered(name, r) == [dec |-> r.dec, ret |-> r.ret, route |-> name]

\* a faulty variant of load: a plain .json path is not taken as a scene here
loadJsonAsync(d, p, f, rt) ==
    IF EndsWithAsdfJson(p) \/ EndsWithAsdf(p)
    THEN Entered("load_asdf_sync", load_asdf_sync(d, p, f))
    ELSE Entered("load_async", load_async(d, p, f, rt))

\* Decoder::load: the scene extensions go to load_asdf_sync, everything else
\* to pollster::block_on(load_async)
load(d, p, f, rt) ==
    LET ext == ToLowercase(Extension(p)) IN
    IF EndsWithAsdfJson(p) \/ EndsWithAsdf(p) \/ ext = "json"
    THEN Entered("load_asdf_sync", load_asdf_sync(d, p, f))
    ELSE Entered("load_async", load_async(d, p, f, rt))

\* One call of decoder.load(path)
Load(p) ==
    /\ \E r \in {load(decoder, p, Stat(p), tokio)} :
          /\ decoder' = r.dec
          /\ ret' = Some(r.ret)
          /\ route' = r.route
    /\ pre' = decoder
    /\ arg' = Some(p)
    /\ UNCHANGED <<tokio, codecVars, uiVars>>

Init ==
    /\ decoder = DecoderNew
    /\ tokio \in BOOLEAN
    /\ pre = DecoderNew
    /\ arg = None
    /\ ret = None
    /\ route = "none"
    /\ channel = <<>>
    /\ sent = <<>>
    /\ started = <<>>
    /\ returned = 0
    /\ pc = "events"
    /\ dialogs = 0
    /\ window = FALSE
    /\ pending_wgsl = None
    /\ has_dynamic_sdf = FALSE
    /\ current_file_info = None
    /\ pipeline = None
    /\ rebuilds = 0
    /\ frame = None
    /\ op = "none"
    /\ input = None
    /\ output = None

\* a panic ends the calling thread: nothing is called after it
Running == ~(IsSome(ret) /\ IsPanic(Unwrap(ret)))

\* the thread that owns the decoder loads one path after another
Next == Running /\ \E p \in Paths : Load(p)

Spec == Init /\ [][Next]_vars

(***************************************************************************)
(* Codec exercise: one function of the codec applied once to an input      *)
(* drawn from a bounded set.                                               *)
(***************************************************************************)
\* how many bytes may follow a 32-byte header in a header-parse input
MaxTail == 2

Str_aQb == <<97, QUOTE, 98>>
Str_t == <<116>>

\* 32 header bytes built field by field; tag is any byte
RawHeaderBytes(magic, tag, flags, original_size, metadata_length, reserved) ==
    magic \o <<1, tag, flags>> \o to_le_bytes(original_size, 8) \o
    to_le_bytes(77, 8) \o to_le_bytes(metadata_length, 4) \o
    <<reserved, reserved, reserved, reserved>>

Magics ==
    { ALICE_MAGIC, <<65, 76, 73, 67, 70>>, <<97, 108, 105, 99, 101>>,
      <<0, 65, 76, 73, 67>> }

HeaderInputs ==
    { SubSeq(RawHeaderBytes(m, tag, fl, o, ml, rs) \o Filler(MaxTail),
             1, n) :
        m \in Magics, tag \in {0, 3, 6, 7, 99, 255}, fl \in {0, 128},
        o \in {0, 2147483647}, ml \in {0, 65536}, rs \in {0, 9},
        n \in {0, 4, 5, 7, 31, 32, 32 + MaxTail} }

Headers ==
    [magic : {ALICE_MAGIC},
     version : {0, 1, 255},
     content_type : {"Linear", "Polynomial", "Perlin", "Fractal", "Fourier",
                     "Voronoi", "SineWave"},
     flags : {0, 255},
     original_size : {0, 255, 256, 16777216, 2147483647},
     compressed_size : {0, 1, 65535, 2147483647},
     metadata_length : {0, 2, 2147483647}]

\* 14 bytes: a negative slope, a negative intercept, sample count 1000, and
\* two more bytes
LinearSample == <<1, 2, 3, 128, 5, 6, 7, 255, 232, 3, 0, 0, 9, 9>>
\* every prefix of them, from the empty payload to all 14 bytes
LinearInputs == {SubSeq(LinearSample, 1, n) : n \in 0..14}

Str_m_s == <<109, 47, 115>>
\* {"unit":"m/s"}
Str_unit_m_s == <<123>> \o KeyUnit \o Str_m_s \o <<QUOTE, 125>>
\* {"sensor_id":"TEMP-001","unit":"m/s"}
Str_sensor_unit ==
    <<123>> \o KeySensorId \o Str_TEMP \o <<QUOTE, 44>> \o
    KeyUnit \o Str_m_s \o <<QUOTE, 125>>
\* {"x":"y"}
Str_unknown_key == <<123, 34, 120, 34, 58, 34, 121, 34, 125>>
\* {"unit":"m/s   (the value is never closed)
Str_unit_unclosed == <<123>> \o KeyUnit \o Str_m_s
\* {"sensor_id":"TEMP-001","unit":"m/s   (the second value is never closed)
Str_sensor_unit_unclosed ==
    <<123>> \o KeySensorId \o Str_TEMP \o <<QUOTE, 44>> \o KeyUnit \o Str_m_s
\* }{unit:   (not JSON at all)
Str_malformed == <<125, 123, 117, 110, 105, 116, 58>>
\* {"unit":"<degree sign>C"}
Str_unit_degC == <<123>> \o KeyUnit \o Str_degC \o <<QUOTE, 125>>
\* {"description":"t","location":"t"}   (keys in another order than to_json's)
Str_desc_loc ==
    <<123>> \o KeyDescription \o Str_t \o <<QUOTE, 44>> \o
    KeyLocation \o Str_t \o <<QUOTE, 125>>

\* byte strings that are not UTF-8: a lone 0xFF, a key followed by a truncated
\* two-byte sequence, a lone continuation byte, an overlong encoding, an
\* encoded surrogate, a three-byte sequence cut short at the end, a code
\* point above U+10FFFF
InvalidUtf8Regions ==
    { <<255>>,
      <<123>> \o KeyUnit \o <<194, QUOTE, 125>>,
      <<128>>, <<192, 128>>, <<237, 160, 128>>, <<123, 226, 130>>,
      <<244, 144, 128, 128>> }

\* what the metadata region of a file may hold: nothing, JSON text with some
\* of the keys, text with other keys, unfinished text, text that is not JSON,
\* and bytes that are not UTF-8
MetaRegions ==
    { <<>>, Str_unit_m_s, Str_sensor_unit, Str_unknown_key, Str_unit_unclosed,
      Str_sensor_unit_unclosed, Str_malformed, Str_unit_degC, Str_desc_loc,
      <<123, 125>> } \cup InvalidUtf8Regions

\* a Linear container with the legacy 8-byte payload, then metadata
LegacyLinearBytes(meta) ==
    RawHeaderBytes(ALICE_MAGIC, 0, 0, 4000, Len(meta), 0) \o
    SubSeq(LinearSample, 1, 8) \o meta

\* the AliceMetadata values the codec is exercised with
Metas ==
    [sensor_id : {None, Some(Str_TEMP), Some(<<>>), Some(Str_aQb)},
     timestamp : {None, Some(Str_t)},
     location : {None, Some(Str_t)},
     unit : {None, Some(Str_degC), Some(Str_m_s)},
     description : {None, Some(Str_TEMP)},
     custom : {None, Some(Str_t)}]

FileInputs ==
    { RawFileBytes(tag, ml, n) :
        tag \in {0, 1, 2, 3},
        ml \in {0, 1, 2, 12, 13, 24, 33, 45, 46, 100, 2147483647},
        n \in {0, 7, 8, 12, 14, 24, 26, 41, 45, 47} }
    \cup {f.data : f \in FileTable}
    \cup {LegacyLinearBytes(meta) : meta \in MetaRegions}

MetaChoices ==
    [sensor_id : {None, Some(Str_TEMP), Some(Str_aQb), Some(<<>>)},
     timestamp : {None, Some(Str_t)},
     unit : {None, Some(Str_degC), Some(<<QUOTE>>)}]

WithMeta(b, mc) ==
    LET b1 == IF IsSome(mc.sensor_id) THEN sensor_id(b, Unwrap(mc.sensor_id))
              ELSE b
        b2 == IF IsSome(mc.timestamp) THEN timestamp(b1, Unwrap(mc.timestamp))
              ELSE b1
    IN  IF IsSome(mc.unit) THEN unit(b2, Unwrap(mc.unit)) ELSE b2

Builders ==
    { WithMeta(from_linear(s, i, n), mc) :
        s \in {32767, -1, 0, -2147483647 - 1, 2147483647},
        i \in {163824115, -65536, 0},
        n \in {0, 1000, 536870911},
        mc \in MetaChoices }
    \cup
    { WithMeta(perlin(seed, scale, oct), mc) :
        seed \in {0, 42, 2147483647}, scale \in {0, F32_2_0}, oct \in {0, 6},
        mc \in MetaChoices }
    \cup
    { WithMeta(mandelbrot(it, cx, F64_0_0), mc) :
        it \in {0, 256}, cx \in {F64_m0_75, F64_0_0}, mc \in MetaChoices }
    \cup
    { WithMeta(julia(it, cx, <<1, 0, 0, 16368>>), mc) :
        it \in {0, 256}, cx \in {F64_m0_75, F64_0_0}, mc \in MetaChoices }
    \cup
    { with_metadata(from_linear(1, 2, 3),
                    [MetadataDefault EXCEPT !.location = Some(Str_t),
                                            !.description = Some(Str_TEMP),
                                            !.custom = Some(Str_t)]) }
    \cup
    { WithMeta(BuilderNew(ct), mc) :
        ct \in {"Linear", "Fractal", "Voronoi"}, mc \in MetaChoices }

\* AliceHeader::parse(data)
HeaderParse(data) ==
    /\ op = "none"
    /\ op' = "AliceHeader::parse"
    /\ input' = data
    /\ output' = AliceHeaderParse(data)
    /\ UNCHANGED <<decoderVars, uiVars>>

\* AliceHeader::parse(&h.to_bytes())
HeaderRoundTrip(h) ==
    /\ op = "none"
    /\ op' = "AliceHeader::to_bytes;parse"
    /\ input' = h
    /\ output' = [bytes |-> AliceHeaderToBytes(h),
                  parsed |-> AliceHeaderParse(AliceHeaderToBytes(h))]
    /\ UNCHANGED <<decoderVars, uiVars>>

\* AliceFile::parse(data)
FileParse(data) ==
    /\ op = "none"
    /\ op' = "AliceFile::parse"
    /\ input' = data
    /\ output' = AliceFileParse(data)
    /\ UNCHANGED <<decoderVars, uiVars>>

\* let file = builder.build()?; AliceFile::parse(&file.to_bytes())
BuildRoundTrip(b) ==
    /\ op = "none"
    /\ op' = "build;to_bytes;parse"
    /\ input' = b
    /\ output' = LET built == build(b) IN
                 IF ~IsOk(built)
                 THEN [built |-> built, bytes |-> None, parsed |-> None]
                 ELSE [built |-> built,
                       bytes |-> Some(AliceFileToBytes(built.val)),
                       parsed |-> Some(AliceFileParse(AliceFileToBytes(built.val)))]
    /\ UNCHANGED <<decoderVars, uiVars>>

\* LinearPayload::parse(data)
LinearParse(data) ==
    /\ op = "none"
    /\ op' = "LinearPayload::parse"
    /\ input' = data
    /\ output' = LinearPayloadParse(data)
    /\ UNCHANGED <<decoderVars, uiVars>>

\* AliceMetadata::parse(&m.to_json())
MetadataRoundTrip(m) ==
    /\ op = "none"
    /\ op' = "AliceMetadata::to_json;parse"
    /\ input' = m
    /\ output' = [bytes |-> AliceMetadataToJson(m),
                  parsed |-> AliceMetadataParse(AliceMetadataToJson(m))]
    /\ UNCHANGED <<decoderVars, uiVars>>

\* let m = AliceMetadata::parse(data)?; m.to_json()
MetadataParse(data) ==
    /\ op = "none"
    /\ op' = "AliceMetadata::parse;to_json"
    /\ input' = data
    /\ output' = LET parsed == AliceMetadataParse(data) IN
                 [parsed |-> parsed,
                  bytes |-> IF IsOk(parsed)
                            THEN Some(AliceMetadataToJson(parsed.val))
                            ELSE None]
    /\ UNCHANGED <<decoderVars, uiVars>>

\* the Q16.16 values equation_string is exercised with: zero, the last value
\* below 0.0001 and the first above it on both sides, the values of the
\* repository's test, and the extremes
EquationValues ==
    {0, 6, 7, -6, -7, 32767, -32767, 163840000, -163840000,
     2147483647, -2147483647 - 1}

\* LinearPayload::equation_string
EquationString(slope_q16, intercept_q16) ==
    /\ op = "none"
    /\ op' = "LinearPayload::equation_string"
    /\ input' = [slope_q16 |-> slope_q16, intercept_q16 |-> intercept_q16]
    /\ output' = equation_string([kind |-> "Linear", slope_q16 |-> slope_q16,
                                  intercept_q16 |-> intercept_q16,
                                  sample_count |-> 0])
    /\ UNCHANGED <<decoderVars, uiVars>>

\* the 32-bit values evaluate is exercised with
EvalValues ==
    {0, 1, -1, 2, 255, 256, 32767, 65536, 65537, -65536, 1000000,
     2147483647, -2147483647 - 1, -3, 163824115}

\* payload.evaluate(x)
Evaluate(slope_q16, intercept_q16, x) ==
    /\ op = "none"
    /\ op' = "LinearPayload::evaluate"
    /\ input' = [slope_q16 |-> slope_q16, intercept_q16 |-> intercept_q16, x |-> x]
    /\ output' = evaluate([kind |-> "Linear", slope_q16 |-> slope_q16,
                           intercept_q16 |-> intercept_q16, sample_count |-> 0], x)
    /\ UNCHANGED <<decoderVars, uiVars>>

NextCodec ==
    \/ \E data \in HeaderInputs : HeaderParse(data)
    \/ \E h \in Headers : HeaderRoundTrip(h)
    \/ \E data \in FileInputs : FileParse(data)
    \/ \E b \in Builders : BuildRoundTrip(b)
    \/ \E s \in EvalValues, i \in EvalValues, x \in EvalValues : Evaluate(s, i, x)
    \/ \E data \in LinearInputs : LinearParse(data)
    \/ \E m \in Metas : MetadataRoundTrip(m)
    \/ \E data \in MetaRegions : MetadataParse(data)
    \/ \E s \in EquationValues, i \in EquationValues : EquationString(s, i)

SpecCodec == Init /\ [][NextCodec]_vars

\* The metadata of a file at its three levels: AliceMetadata::parse on a
\* metadata region, AliceFile::parse on a container holding that region, and
\* Decoder::load on the files of the disk.
NextMetadata ==
    \/ arg = None /\ \E data \in MetaRegions : MetadataParse(data)
    \/ arg = None /\ \E meta \in MetaRegions : FileParse(LegacyLinearBytes(meta))
    \/ op = "none" /\ Running /\ \E p \in Paths : Load(p)

SpecMetadata == Init /\ [][NextMetadata]_vars

\* the caller of load() runs inside a Tokio runtime
InitTokio == Init /\ tokio

SpecTokio == InitTokio /\ [][Next]_vars

(***************************************************************************)
(* Ui (ui/mod.rs): paths reach the decoder through the file-loader         *)
(* channel.  The control thread handles window events, where a dropped     *)
(* file is queued, and then runs Ui::update, which drains the channel;     *)
(* each file dialog runs on a thread of its own and sends the picked path. *)
(***************************************************************************)
\* how many paths are sent in one run, and how many dialogs are open at once
MaxSent == 3
MaxDialogs == 2

\* the paths dropped or picked in this exercise
UiPaths ==
    { <<"linear", "alice">>, <<"scene", "asdf">>, <<"README">>,
      <<"polyhuge", "alice">>, <<"scene", "asdf", "json">> }

\* Sender::send on the unbounded mpsc channel
Send(p) ==
    /\ Len(sent) < MaxSent
    /\ channel' = Append(channel, p)
    /\ sent' = Append(sent, p)

\* SdfContent::to_wgsl: the shader source transpiled from the scene's tree
to_wgsl(sdf_content) == [transpiled |-> sdf_content.tree]

\* FileInfo::from_alice_file(alice_file, Some(&path))
from_alice_file(file, p) ==
    [path |-> Some(p), content_type |-> file.header.content_type,
     original_size |-> file.header.original_size,
     compressed_size |-> file.header.compressed_size]

\* the file named on the command line, if any
InitialFiles == {None} \cup {Some(p) : p \in UiPaths}

\* Event::Resumed -> App::init: the window and the renderer are made and the
\* initial file, if any, is loaded with decoder.load; an error is logged
AppInit(initial_file) ==
    /\ pc = "events"
    /\ ~window
    /\ IF initial_file = None
       THEN /\ window' = TRUE
            /\ UNCHANGED <<decoderVars, pc>>
       ELSE /\ \E r \in {load(decoder, Unwrap(initial_file),
                              Stat(Unwrap(initial_file)), tokio)} :
                  /\ decoder' = r.dec
                  /\ ret' = Some(r.ret)
                  /\ route' = r.route
                  /\ pc' = IF IsPanic(r.ret) THEN "aborted" ELSE "events"
                  /\ window' = ~IsPanic(r.ret)
            /\ pre' = decoder
            /\ arg' = initial_file
            /\ UNCHANGED tokio
    /\ UNCHANGED <<codecVars, channel, sent, started, returned, dialogs,
                   pending_wgsl, has_dynamic_sdf, current_file_info, pipeline,
                   rebuilds, frame>>

\* WindowEvent::DroppedFile -> Ui::queue_file, on the control thread
queue_file(p) ==
    /\ pc = "events"
    /\ window
    /\ Send(p)
    /\ UNCHANGED <<decoderVars, codecVars, started, returned, pc, dialogs,
                   viewVars>>

\* Ui::open_file_dialog: the control thread spawns a dialog thread
open_file_dialog ==
    /\ pc = "events"
    /\ window
    /\ dialogs < MaxDialogs
    /\ dialogs' = dialogs + 1
    /\ UNCHANGED <<decoderVars, codecVars, channel, sent, started, returned, pc,
                   viewVars>>

\* a dialog thread: pick_file() returned a path, which is sent
DialogPick(p) ==
    /\ pc # "aborted"
    /\ dialogs > 0
    /\ Send(p)
    /\ dialogs' = dialogs - 1
    /\ UNCHANGED <<decoderVars, codecVars, started, returned, pc, viewVars>>

\* a dialog thread: pick_file() returned None
DialogCancel ==
    /\ pc # "aborted"
    /\ dialogs > 0
    /\ dialogs' = dialogs - 1
    /\ UNCHANGED <<decoderVars, codecVars, channel, sent, started, returned, pc,
                   viewVars>>

\* WindowEvent::RedrawRequested with a window and a renderer: the control
\* thread enters Ui::update
UpdateBegin ==
    /\ pc = "events"
    /\ window
    /\ pc' = "recv"
    /\ UNCHANGED <<decoderVars, codecVars, channel, sent, started, returned,
                   dialogs, viewVars>>

\* "while let Ok(path) = self.file_loader_rx.try_recv()": the loop ends on an
\* empty channel and update returns, otherwise the oldest path is taken
TryRecv ==
    /\ pc = "recv"
    /\ IF channel = <<>>
       THEN /\ pc' = "render"
            /\ UNCHANGED <<channel, started>>
       ELSE /\ pc' = "load"
            /\ started' = Append(started, Head(channel))
            /\ channel' = Tail(channel)
    /\ UNCHANGED <<decoderVars, codecVars, sent, returned, dialogs, viewVars>>

\* the body of the loop after decoder.load(&path) returned r for path p with
\* the decoder left as d: what it does to pending_wgsl, the panel's flag and
\* the file-info record
AfterLoad(r, d, p) ==
    IF IsPanic(r)
    THEN UNCHANGED <<pending_wgsl, has_dynamic_sdf, current_file_info>>
    ELSE IF ~IsOk(r)
    THEN /\ current_file_info' = None
         /\ has_dynamic_sdf' = FALSE
         /\ UNCHANGED pending_wgsl
    ELSE /\ IF d.sdf_content # None
            THEN /\ pending_wgsl' = Some(to_wgsl(Unwrap(d.sdf_content)))
                 /\ has_dynamic_sdf' = TRUE
            ELSE UNCHANGED <<pending_wgsl, has_dynamic_sdf>>
         /\ current_file_info' =
               IF d.alice_file # None
               THEN Some(from_alice_file(Unwrap(d.alice_file), p))
               ELSE None

\* decoder.load(&path) inside the loop and the rest of the loop body: Ok and
\* Err both go on with the loop, a panic unwinds the control thread
UpdateLoad ==
    /\ pc = "load"
    /\ \E r \in {load(decoder, started[Len(started)],
                      Stat(started[Len(started)]), tokio)} :
          /\ decoder' = r.dec
          /\ ret' = Some(r.ret)
          /\ route' = r.route
          /\ pc' = IF IsPanic(r.ret) THEN "aborted" ELSE "recv"
          /\ returned' = IF IsPanic(r.ret) THEN returned ELSE returned + 1
          /\ AfterLoad(r.ret, r.dec, started[Len(started)])
    /\ pre' = decoder
    /\ arg' = Some(started[Len(started)])
    /\ UNCHANGED <<tokio, codecVars, channel, sent, started, dialogs, window,
                   pipeline, rebuilds, frame>>

\* the rest of RedrawRequested after update: take_pending_wgsl, the pipeline
\* rebuild when there was one, and renderer.render
RenderFrame ==
    /\ pc = "render"
    /\ pending_wgsl' = None
    /\ pipeline' = IF pending_wgsl # None THEN pending_wgsl ELSE pipeline
    /\ rebuilds' = IF pending_wgsl # None THEN rebuilds + 1 ELSE rebuilds
    /\ frame' = Some([scene |-> decoder.sdf_content,
                      pipeline |-> IF pending_wgsl # None THEN pending_wgsl
                                   ELSE pipeline])
    /\ pc' = "events"
    /\ UNCHANGED <<decoderVars, codecVars, channel, sent, started, returned,
                   dialogs, window, has_dynamic_sdf, current_file_info>>

NextUi ==
    \/ \E f \in InitialFiles : AppInit(f)
    \/ \E p \in UiPaths : queue_file(p)
    \/ open_file_dialog
    \/ \E p \in UiPaths : DialogPick(p)
    \/ DialogCancel
    \/ UpdateBegin
    \/ TryRecv
    \/ UpdateLoad
    \/ RenderFrame

SpecUi == Init /\ [][NextUi]_vars

(***************************************************************************)
(* Claims                                                                  *)
(***************************************************************************)
Returned == IsSome(ret) /\ ~IsPanic(Unwrap(ret))
LoadFailed == IsSome(ret) /\ IsErr(Unwrap(ret))
LoadSucceeded == IsSome(ret) /\ IsOk(Unwrap(ret))
LoadPanicked == IsSome(ret) /\ IsPanic(Unwrap(ret))
ArgPath == Unwrap(arg)
ArgExt == ToLowercase(Extension(ArgPath))
HasMagic(data) == Len(data) >= 5 /\ SubSeq(data, 1, 5) = ALICE_MAGIC

\* C1: a failed load() leaves content_type(), content() and file_path() as
\* they were before the call.
C1_FailedLoadKeepsAccessors ==
    LoadFailed =>
        /\ decoder.content_type = pre.content_type
        /\ decoder.content = pre.content
        /\ decoder.file_path = pre.file_path

\* C2: a failed load() leaves alice_file(), sdf_content() and the two size
\* statistics as they were before the call.
C2_FailedLoadKeepsContainerSceneSizes ==
    LoadFailed =>
        /\ decoder.alice_file = pre.alice_file
        /\ decoder.sdf_content = pre.sdf_content
        /\ decoder.original_size = pre.original_size
        /\ decoder.compressed_size = pre.compressed_size

\* what the claims say a path's kind is, by its lower-cased extension
KindOfArg ==
    CASE ArgExt \in {"alice", "alz"} -> "AliceZip"
      [] ArgExt = "asp" -> "AspStream"
      [] ArgExt \in {"png", "jpg", "jpeg", "bmp", "gif"} -> "Image"
      [] ArgExt \in {"asdf", "json"} -> "AliceSdf"
      [] OTHER -> "unsupported"

ArgData == FileOf(ArgPath).data
ArgIsContainer == HasMagic(ArgData) /\ IsOk(AliceFileParse(ArgData))

\* C3: right after a successful load(p) every field of the decoder describes
\* p: the path, the classification of p's kind, p's sizes, the parsed
\* container exactly when p parsed as one, the scene exactly when p is a
\* scene, and no content, container or scene of an earlier load.
C3_SuccessfulLoadDescribesPath ==
    LoadSucceeded =>
        /\ decoder.file_path = Some(ArgPath)
        /\ decoder.content_type = KindOfArg
        /\ decoder.compressed_size =
              (IF KindOfArg = "AliceZip" /\ ArgIsContainer
               THEN AliceFileParse(ArgData).val.header.compressed_size
               ELSE Len(ArgData))
        /\ decoder.original_size =
              (CASE KindOfArg = "AliceSdf" -> Len(ArgData) * 100
                 [] KindOfArg = "AspStream" -> Len(ArgData) * 1000
                 [] KindOfArg = "Image" ->
                        Unwrap(FileOf(ArgPath).image).width *
                        Unwrap(FileOf(ArgPath).image).height * 4
                 [] KindOfArg = "AliceZip" ->
                        IF ArgIsContainer
                        THEN AliceFileParse(ArgData).val.header.original_size
                        ELSE Len(ArgData) * 500)
        /\ IsSome(decoder.alice_file) <=> (KindOfArg = "AliceZip" /\ ArgIsContainer)
        /\ IsSome(decoder.alice_file) =>
              decoder.alice_file = Some(AliceFileParse(ArgData).val)
        /\ IsSome(decoder.sdf_content) <=> KindOfArg = "AliceSdf"
        /\ IsSome(decoder.sdf_content) =>
              /\ Unwrap(decoder.sdf_content).tree = ArgPath
              /\ decoder.content = None
        /\ KindOfArg # "AliceSdf" => IsSome(decoder.content)
        /\ KindOfArg = "Image" => Unwrap(decoder.content).kind = "Raster"
        /\ KindOfArg = "AspStream" => Unwrap(decoder.content).kind = "Perlin"
        /\ KindOfArg = "AliceZip" =>
              Unwrap(decoder.content) =
                  (IF ArgIsContainer
                   THEN ContentOfPayload(AliceFileParse(ArgData).val.payload)
                   ELSE DefaultMandelbrot)

\* C3 witness: a scene was loaded successfully right after a container
C3_Witness_SceneAfterContainer ==
    /\ LoadSucceeded
    /\ KindOfArg = "AliceSdf"
    /\ pre.content_type = "AliceZip"
    /\ IsSome(pre.alice_file)
    /\ IsSome(pre.content)

\* the file given to load() is a readable .alice/.alz file without the magic
ArgIsLegacy ==
    /\ IsSome(arg)
    /\ ArgExt \in {"alice", "alz"}
    /\ Exists(ArgPath)
    /\ ~HasMagic(ArgData)

\* C9: load() of a readable .alice/.alz file whose first 5 bytes are not the
\* magic never fails: it succeeds with the default Mandelbrot content,
\* original_size = file_size * 500, compressed_size = file_size and no
\* parsed container.
C9_LegacyFileLoadsDefault ==
    ArgIsLegacy =>
        /\ LoadSucceeded
        /\ decoder.content = Some(DefaultMandelbrot)
        /\ decoder.original_size = Len(ArgData) * 500
        /\ decoder.compressed_size = Len(ArgData)
        /\ decoder.alice_file = None

ReservedTags == {1, 4, 5, 6}

\* C10: load() of a file that starts with the magic and whose header carries
\* a reserved content-type tag returns UnsupportedContentType whatever
\* follows the header, and a codec failure on any magic-prefixed file comes
\* back from load() as an error value.
C10_ReservedTagIsUnsupported ==
    (IsSome(arg) /\ ArgExt \in {"alice", "alz"} /\ Exists(ArgPath)
        /\ HasMagic(ArgData)) =>
        /\ (Len(ArgData) >= HeaderSIZE /\ ArgData[7] \in ReservedTags) =>
              ret = Some(Err("UnsupportedContentType"))
        /\ ~IsOk(AliceFileParse(ArgData)) => LoadFailed

RoundTripped == op = "build;to_bytes;parse" /\ IsOk(output.built)
Built == output.built.val
Parsed == Unwrap(output.parsed)

\* C4: for every container the builder produces (Linear, Perlin, Fractal,
\* with or without metadata) parse(to_bytes(c)) succeeds and returns c's
\* header and payload, field for field.
C4_BuiltContainerRoundTrips ==
    RoundTripped =>
        /\ IsOk(Parsed)
        /\ Parsed.val.header = Built.header
        /\ Parsed.val.payload = Built.payload

NamedFields(m) ==
    <<m.sensor_id, m.timestamp, m.location, m.unit, m.description>>
HasQuote(o) == IsSome(o) /\ \E i \in 1..Len(Unwrap(o)) : Unwrap(o)[i] = QUOTE
QuoteFree(m) == \A k \in 1..5 : ~HasQuote(NamedFields(m)[k])

LinearRoundTripExact ==
    /\ IsOk(Parsed)
    /\ Parsed.val.header.content_type = "Linear"
    /\ Parsed.val.payload.kind = "Linear"
    /\ Parsed.val.payload.slope_q16 = Built.payload.slope_q16
    /\ Parsed.val.payload.intercept_q16 = Built.payload.intercept_q16
    /\ Parsed.val.payload.sample_count = Built.payload.sample_count
    /\ Parsed.val.header.original_size = Built.header.original_size
    /\ Parsed.val.header.compressed_size = Built.header.compressed_size
    /\ Parsed.val.header.metadata_length = Built.header.metadata_length
    /\ NamedFields(Parsed.val.metadata) = NamedFields(Built.metadata)

\* C5 as stated: every Linear container of the builder, whatever its sensor
\* id and unit, comes back from serialize-then-parse with the same slope,
\* intercept, sample count, header sizes and named metadata fields.
C5_Original_LinearRoundTrip ==
    (RoundTripped /\ Built.payload.kind = "Linear") => LinearRoundTripExact

\* C5 amended: the same, for Linear containers whose metadata values hold no
\* double quote.
C5_LinearRoundTripQuoteFree ==
    (RoundTripped /\ Built.payload.kind = "Linear" /\ QuoteFree(Built.metadata))
        => LinearRoundTripExact

\* C5 witness: a Linear container with a negative slope, a sensor id and a
\* multi-byte unit has gone through serialize-then-parse
C5_Witness_LinearWithMetadata ==
    /\ RoundTripped
    /\ Built.payload.kind = "Linear"
    /\ Built.payload.slope_q16 < 0
    /\ Built.payload.sample_count = 1000
    /\ Built.metadata.sensor_id = Some(Str_TEMP)
    /\ Built.metadata.unit = Some(Str_degC)
    /\ IsOk(Parsed)

\* C6: header parse answers TooShort below 32 bytes (whatever the magic),
\* otherwise BadMagic when the first 5 bytes are not the magic, otherwise
\* UnknownContentType when the tag byte is outside 0..6, otherwise a header;
\* it never panics.
C6_HeaderParseErrorOrder ==
    op = "AliceHeader::parse" =>
        /\ ~IsPanic(output)
        /\ IF Len(input) < 32 THEN output = Err("TooShort")
           ELSE IF SubSeq(input, 1, 5) # <<65, 76, 73, 67, 69>>
                THEN output = Err("BadMagic")
           ELSE IF input[7] \notin 0..6 THEN output = Err("UnknownContentType")
           ELSE IsOk(output)

\* C6 witness: a buffer shorter than 32 bytes whose magic is also wrong was
\* parsed
C6_Witness_ShortAndBadMagic ==
    /\ op = "AliceHeader::parse"
    /\ Len(input) \in 5..31
    /\ SubSeq(input, 1, 5) # ALICE_MAGIC
    /\ output = Err("TooShort")

MinPayload(content_type) ==
    CASE content_type = "Linear" -> 8
      [] content_type = "Perlin" -> 24
      [] content_type = "Fractal" -> 45
      [] OTHER -> 0

\* C7: container parse returns a container or an error value for every
\* buffer; a metadata length above (total length - 32 - minimum payload
\* size), also one above the whole buffer, is rejected with an error and
\* never panics.
C7_ParseNeverPanics ==
    op = "AliceFile::parse" =>
        /\ IsOk(output) \/ IsErr(output)
        /\ LET hr == AliceHeaderParse(input) IN
           (IsOk(hr) /\ hr.val.metadata_length >
                Len(input) - 32 - MinPayload(hr.val.content_type))
                => IsErr(output)

Value4(b, k) == b[k] + 256 * b[k + 1] + 65536 * b[k + 2] + 16777216 * b[k + 3]
TagOf ==
    [Linear |-> 0, Polynomial |-> 1, Perlin |-> 2, Fractal |-> 3, Fourier |-> 4,
     Voronoi |-> 5, SineWave |-> 6]

\* C8: for every valid header h, to_bytes(h) is 32 bytes with the fields at
\* the documented little-endian offsets, and parse(to_bytes(h)) = h.
C8_HeaderRoundTrip ==
    op = "AliceHeader::to_bytes;parse" =>
        LET b == output.bytes IN
        /\ Len(b) = 32
        /\ SubSeq(b, 1, 5) = <<65, 76, 73, 67, 69>>
        /\ b[6] = input.version
        /\ b[7] = TagOf[input.content_type]
        /\ b[8] = input.flags
        /\ Value4(b, 9) = input.original_size
        /\ SubSeq(b, 13, 16) = <<0, 0, 0, 0>>
        /\ Value4(b, 17) = input.compressed_size
        /\ SubSeq(b, 21, 24) = <<0, 0, 0, 0>>
        /\ Value4(b, 25) = input.metadata_length
        /\ IsOk(output.parsed)
        /\ output.parsed.val = input

\* C8 witness: a header with a reserved content type, a non-zero flags byte
\* and sizes that fill several bytes has gone through to_bytes and parse
C8_Witness_WideHeader ==
    /\ op = "AliceHeader::to_bytes;parse"
    /\ input.content_type = "SineWave"
    /\ input.flags = 255
    /\ input.original_size = 2147483647
    /\ input.compressed_size = 65535
    /\ input.metadata_length = 2
    /\ IsOk(output.parsed)

\* the container that the file given to load() parses as
ArgLoadedContainer ==
    /\ LoadSucceeded
    /\ KindOfArg = "AliceZip"
    /\ Exists(ArgPath)
    /\ ArgIsContainer
ArgPayload == AliceFileParse(ArgData).val.payload
Content == Unwrap(decoder.content)

\* a 32-bit value taken as unsigned (mod 2^32) and widened to 64 bits, as
\* four 16-bit limbs
U32AsU64(v) == <<v % 65536, (v \div 65536) % 65536, 0, 0>>

\* C11: loading a container with a Linear payload yields Perlin content with
\* octaves 6, persistence 0.5, lacunarity 2.0 and seed = slope_raw mod 2^32,
\* also for a negative slope_raw.
C11_LinearLoadsAsPerlin ==
    (ArgLoadedContainer /\ ArgPayload.kind = "Linear") =>
        /\ Content.kind = "Perlin"
        /\ Content.octaves = 6
        /\ Content.persistence = F32_0_5
        /\ Content.lacunarity = F32_2_0
        /\ Content.seed = U32AsU64(ArgPayload.slope_q16)

FractalTypeByte == [Mandelbrot |-> 0, Julia |-> 1, BurningShip |-> 2, Tricorn |-> 3]

\* C12: loading a container with a Perlin or Fractal payload yields content
\* whose every field is the payload's field: seed, scale, octaves,
\* persistence, lacunarity; fractal kind, max iterations, escape radius,
\* centre and Julia constant, for every fractal-kind byte.
C12_PerlinFractalFieldForField ==
    ArgLoadedContainer =>
        /\ ArgPayload.kind = "Perlin" =>
              /\ Content.kind = "Perlin"
              /\ Content.seed = <<ArgPayload.seed, 0, 0, 0>>
              /\ Content.scale = <<"bits", ArgPayload.scale>>
              /\ Content.octaves = ArgPayload.octaves
              /\ Content.persistence = ArgPayload.persistence
              /\ Content.lacunarity = ArgPayload.lacunarity
        /\ ArgPayload.kind = "Fractal" =>
              /\ Content.kind = "Fractal"
              /\ FractalTypeByte[Content.fractal_type] = ArgPayload.fractal_type
              /\ Content.max_iterations = ArgPayload.max_iterations
              /\ Content.escape_radius = ArgPayload.escape_radius
              /\ Content.center = <<ArgPayload.center_x, ArgPayload.center_y>>
              /\ Content.julia_c =
                    Some(<<ArgPayload.julia_cx, ArgPayload.julia_cy>>)

ArgIsScenePath ==
    EndsWithAsdf(ArgPath) \/ EndsWithAsdfJson(ArgPath) \/ ArgExt = "json"
AsyncExtensions == {"alice", "alz", "asp", "png", "jpg", "jpeg", "bmp", "gif"}

\* C13: load(path) chooses its route from the path alone: a path ending in
\* .asdf or .asdf.json or with extension json is handed to the synchronous
\* scene loader and never to the asynchronous path; the extensions alice,
\* alz, asp, png, jpg, jpeg, bmp, gif are handed to the asynchronous path;
\* every other extension ends with UnsupportedFormat.
C13_RouteFromPathAlone ==
    IsSome(arg) =>
        /\ ArgIsScenePath => route = "load_asdf_sync"
        /\ (~ArgIsScenePath /\ ArgExt \in AsyncExtensions) => route = "load_async"
        /\ (~ArgIsScenePath /\ ArgExt \notin AsyncExtensions) =>
              ret = Some(Err("UnsupportedFormat"))

\* C13 witness: outside a Tokio runtime a plain .json path went to the
\* synchronous loader, and a video path was refused
C13_Witness_JsonSyncNoRuntime ==
    /\ ~tokio
    /\ arg = Some(<<"scene", "json">>)
    /\ route = "load_asdf_sync"
    /\ Returned
    /\ pre.file_path = Some(<<"movie", "mp4">>)

\* C14: for .asdf, .asdf.json and plain .json, load() of an existing file
\* that the scene-description loader accepts succeeds with content_type
\* AliceSdf, sdf_content present, content absent and alice_file absent.
C14_SceneExtensionsLoad ==
    (IsSome(arg) /\ Exists(ArgPath) /\ IsSome(FileOf(ArgPath).scene)
        /\ (EndsWithAsdf(ArgPath) \/ EndsWithAsdfJson(ArgPath)
            \/ Extension(ArgPath) = "json")) =>
        /\ LoadSucceeded
        /\ decoder.content_type = "AliceSdf"
        /\ IsSome(decoder.sdf_content)
        /\ decoder.content = None
        /\ decoder.alice_file = None

\* C15: called from a thread with no asynchronous runtime, load() of a path
\* on the asynchronous route (.alice/.alz, .asp, raster images) returns
\* success or an error value; it never aborts the calling thread.
C15_AsyncRouteReturnsWithoutRuntime ==
    (IsSome(arg) /\ ~tokio /\ ~ArgIsScenePath /\ ArgExt \in AsyncExtensions) =>
        Returned

\* C16: queued paths are loaded one at a time on the control thread in the
\* order they were queued: at most one load is in flight, the loads started
\* are the first paths sent, each once and in send order, and a load that
\* ended leaves the control thread able to load the paths queued after it.
C16_QueuedPathsLoadedInOrder ==
    /\ Len(started) - returned <= 1
    /\ Len(started) <= Len(sent)
    /\ started = SubSeq(sent, 1, Len(started))
    /\ channel = SubSeq(sent, Len(started) + 1, Len(sent))
    /\ channel # <<>> => pc # "aborted"

\* the two 16-bit halves of a 32-bit value taken mod 2^32
Lo16(v) == v % 65536
Hi16(v) == (v \div 65536) % 65536
\* the low 32 bits of the product of two 16-bit values, as <<low half, high half>>
Mul16(x, y) ==
    << (x * (y % 256) + ((x * (y \div 256)) % 256) * 256) % 65536,
       ((x * (y % 256) + ((x * (y \div 256)) % 256) * 256) \div 65536
          + (x * (y \div 256)) \div 256) % 65536 >>
\* (slope * x mod 2^32 + intercept) mod 2^32, as <<low half, high half>>
RawHalves(slope, x, intercept) ==
    << (Mul16(Lo16(slope), Lo16(x))[1] + Lo16(intercept)) % 65536,
       (Mul16(Lo16(slope), Lo16(x))[2]
          + Mul16(Lo16(slope), Hi16(x))[1]
          + Mul16(Hi16(slope), Lo16(x))[1]
          + Hi16(intercept)
          + (Mul16(Lo16(slope), Lo16(x))[1] + Lo16(intercept)) \div 65536)
         % 65536 >>
\* two halves read as a signed 32-bit value
Signed32(h) == (IF h[2] >= 32768 THEN h[2] - 65536 ELSE h[2]) * 65536 + h[1]

\* C17: for all 32-bit slope_raw, intercept_raw and x, evaluate(x) has the raw
\* result (low 32 bits of slope_raw * x) + intercept_raw wrapped to a signed
\* 32-bit value, with no trap; evaluate(0) has the raw result intercept_raw.
C17_EvaluateWraps ==
    op = "LinearPayload::evaluate" =>
        /\ output.q16_val =
              Signed32(RawHalves(input.slope_q16, input.x, input.intercept_q16))
        /\ output.q16_val \in (-2147483647 - 1)..2147483647
        /\ output.divisor = 65536
        /\ input.x = 0 => output.q16_val = input.intercept_q16

\* C17 witness: a product that does not fit 32 bits and a sum that wraps: the
\* largest slope at the largest x with the largest intercept
C17_Witness_ProductAndSumWrap ==
    /\ op = "LinearPayload::evaluate"
    /\ input.slope_q16 = 2147483647
    /\ input.x = 2147483647
    /\ input.intercept_q16 = 2147483647
    /\ output.q16_val = -2147483647 - 1

\* the signed 32-bit value of four little-endian bytes b[k+1..k+4]
SignedAt(b, k) ==
    Signed32(<<b[k + 1] + 256 * b[k + 2], b[k + 3] + 256 * b[k + 4]>>)

\* C18: LinearPayload::parse fails with PayloadTooShort below 8 bytes, reads
\* slope and intercept from bytes 0..8 otherwise, with sample count 0 for the
\* 8-byte layout and the sample count of bytes 8..12 for the 12-byte layout;
\* a container with an 8-byte Linear payload followed by metadata parses with
\* that slope and intercept and with the metadata's unit.
C18_LinearBothLayouts ==
    /\ op = "LinearPayload::parse" =>
          IF Len(input) < 8 THEN output = Err("PayloadTooShort")
          ELSE /\ IsOk(output)
               /\ output.val.slope_q16 = SignedAt(input, 0)
               /\ output.val.intercept_q16 = SignedAt(input, 4)
               /\ Len(input) = 8 => output.val.sample_count = 0
               /\ Len(input) = 12 =>
                     output.val.sample_count =
                        input[9] + 256 * input[10] + 65536 * input[11]
                          + 16777216 * input[12]
    /\ op = "AliceFile::parse" /\ input = LegacyLinearBytes(Str_unit_m_s) =>
          /\ IsOk(output)
          /\ output.val.payload.slope_q16 = SignedAt(LinearSample, 0)
          /\ output.val.payload.intercept_q16 = SignedAt(LinearSample, 4)
          /\ output.val.payload.sample_count = 0
          /\ output.val.header.metadata_length = Len(Str_unit_m_s)
          /\ output.val.metadata.unit = Some(Str_m_s)
          /\ output.val.metadata.sensor_id = None

\* C18 witness: the legacy container with metadata has been parsed
C18_Witness_LegacyWithMetadata ==
    /\ op = "AliceFile::parse"
    /\ input = LegacyLinearBytes(Str_unit_m_s)
    /\ IsOk(output)
    /\ output.val.payload.slope_q16 = -2147286527
    /\ output.val.payload.intercept_q16 = -16316923
    /\ output.val.metadata.unit = Some(Str_m_s)

\* the keys of the five named fields, in to_json's order
FieldKeys == <<KeySensorId, KeyTimestamp, KeyLocation, KeyUnit, KeyDescription>>
Contains(h, needle) ==
    \E i \in 1..(Len(h) - Len(needle) + 1) :
        \A j \in 1..Len(needle) : h[i + j - 1] = needle[j]
\* {"location":"t","description":"t"}
Str_loc_desc ==
    <<123>> \o KeyLocation \o Str_t \o <<QUOTE, 44>> \o
    KeyDescription \o Str_t \o <<QUOTE, 125>>

\* C19: for a Metadata whose present values hold no double quote,
\* parse(to_json(m)) has the same five named fields as m; and parsing text
\* sets no field whose key the text lacks, so that to_json of the result has
\* exactly the keys of the fields set, comma-joined: {"unit":"m/s"} gives
\* only unit and serializes back to itself.
C19_MetadataLossless ==
    /\ op = "AliceMetadata::to_json;parse" /\ QuoteFree(input) =>
          /\ IsOk(output.parsed)
          /\ NamedFields(output.parsed.val) = NamedFields(input)
    /\ op = "AliceMetadata::parse;to_json" /\ IsOk(output.parsed) =>
          /\ \A k \in 1..5 :
                /\ ~Contains(input, FieldKeys[k]) =>
                      NamedFields(output.parsed.val)[k] = None
                /\ Contains(Unwrap(output.bytes), FieldKeys[k]) <=>
                      IsSome(NamedFields(output.parsed.val)[k])
          /\ input = Str_unit_m_s =>
                /\ NamedFields(output.parsed.val) =
                      <<None, None, None, Some(Str_m_s), None>>
                /\ output.bytes = Some(Str_unit_m_s)
          /\ input = Str_sensor_unit => output.bytes = Some(Str_sensor_unit)
          /\ input = Str_desc_loc => output.bytes = Some(Str_loc_desc)

\* C19 witness: a Metadata with all five named fields present and quote-free
\* has been serialized and parsed back
C19_Witness_AllFiveRoundTrip ==
    /\ op = "AliceMetadata::to_json;parse"
    /\ QuoteFree(input)
    /\ \A k \in 1..5 : IsSome(NamedFields(input)[k])
    /\ input.unit = Some(Str_degC)
    /\ IsOk(output.parsed)
    /\ output.parsed.val.unit = Some(Str_degC)

\* C20: whatever the metadata region of a container with a good header and a
\* good Linear payload holds, AliceFile::parse returns the container, payload
\* intact, and the metadata has no field whose key or closing quote is missing.
C20_MetadataNeverFailsParse ==
    op = "AliceFile::parse"
      /\ (\E meta \in MetaRegions : input = LegacyLinearBytes(meta)) =>
        /\ IsOk(output)
        /\ output.val.payload.slope_q16 = SignedAt(LinearSample, 0)
        /\ output.val.payload.intercept_q16 = SignedAt(LinearSample, 4)

\* C21: AliceMetadata::parse returns the all-empty value for zero-length input
\* and fails with InvalidEncoding for non-empty input that is not UTF-8; a
\* container holding such a metadata region fails to parse with that error,
\* and load() of a file holding one does not succeed: it returns that error
\* when the loader gets to read the file.
C21_InvalidEncodingPropagates ==
    /\ op = "AliceMetadata::parse;to_json" =>
          /\ input = <<>> => output.parsed = Ok(MetadataDefault)
          /\ input \in InvalidUtf8Regions =>
                output.parsed = Err("InvalidEncoding")
    /\ op = "AliceFile::parse" =>
          \A meta \in InvalidUtf8Regions :
              input = LegacyLinearBytes(meta) => output = Err("InvalidEncoding")
    /\ arg = Some(<<"badmeta", "alice">>) =>
          /\ ~IsOk(Unwrap(ret))
          /\ tokio => Unwrap(ret) = Err("InvalidEncoding")

\* C21 witness: load() of the file whose metadata region is the byte 0xFF has
\* returned InvalidEncoding
C21_Witness_LoadFailsOnBadMetadata ==
    /\ arg = Some(<<"badmeta", "alice">>)
    /\ tokio
    /\ ret = Some(Err("InvalidEncoding"))
    /\ decoder.alice_file = None

\* C22: build() fails with MissingPayload exactly when the builder has no
\* payload (made by new() alone, whatever setters followed); a builder with a
\* payload (from_linear, mandelbrot, julia, perlin) builds, and the header's
\* content type is the payload's variant.
C22_BuildFailsOnlyWithoutPayload ==
    op = "build;to_bytes;parse" =>
        /\ input.payload = None <=> output.built = Err("MissingPayload")
        /\ input.payload # None =>
              /\ IsOk(output.built)
              /\ output.built.val.header.content_type =
                    Unwrap(input.payload).kind
              /\ output.built.val.payload = Unwrap(input.payload)

\* C22 witness: a Julia builder with a sensor id has been built, and a
\* payload-less builder with one would not
C22_Witness_JuliaBuilt ==
    /\ op = "build;to_bytes;parse"
    /\ input.payload # None
    /\ Unwrap(input.payload).kind = "Fractal"
    /\ Unwrap(input.payload).fractal_type = 1
    /\ input.metadata.sensor_id = Some(Str_TEMP)
    /\ IsOk(output.built)
    /\ output.built.val.header.content_type = "Fractal"

\* the number of bytes each payload variant serializes to
PayloadLen(kind) ==
    CASE kind = "Linear" -> 12 [] kind = "Perlin" -> 24 [] kind = "Fractal" -> 41

\* C23: for every built container compressed_size = 32 + payload length +
\* metadata length = the length of to_bytes(), and metadata_length is the
\* number of bytes to_bytes() appends after the payload: the braces of the
\* metadata text open right after the payload and close at the last byte.
C23_CompressedSizeIsFileLength ==
    RoundTripped =>
        /\ Built.header.compressed_size =
              32 + PayloadLen(Built.payload.kind) + Built.header.metadata_length
        /\ Built.header.compressed_size = Len(Unwrap(output.bytes))
        /\ Built.header.metadata_length >= 2
        /\ Unwrap(output.bytes)[32 + PayloadLen(Built.payload.kind) + 1] = 123
        /\ Unwrap(output.bytes)[Len(Unwrap(output.bytes))] = 125
        /\ Unwrap(output.bytes)[25] = Built.header.metadata_length % 256
        /\ Unwrap(output.bytes)[26] = Built.header.metadata_length \div 256
        /\ Unwrap(output.bytes)[17] = Built.header.compressed_size % 256

\* C23 witness: a Perlin container with a sensor id and a unit: 32 + 24 + 37
C23_Witness_PerlinWithMetadata ==
    /\ RoundTripped
    /\ Built.payload.kind = "Perlin"
    /\ Built.metadata.sensor_id = Some(Str_TEMP)
    /\ Built.metadata.unit = Some(Str_degC)
    /\ Built.metadata.timestamp = None
    /\ Built.header.metadata_length = 37
    /\ Built.header.compressed_size = 93
    /\ Len(Unwrap(output.bytes)) = 93

\* C24: a container built by from_linear(slope, intercept, n) has
\* original_size = n * 4 for every n; a Perlin or Fractal container has the
\* estimate compressed_size * 100.
C24_LinearOriginalSizeIsExplicit ==
    RoundTripped =>
        IF Built.payload.kind = "Linear"
        THEN Built.header.original_size = Built.payload.sample_count * 4
        ELSE Built.header.original_size = Built.header.compressed_size * 100

\* C25: compression_ratio() never divides by zero: the decoder's and the
\* header's return 1.0 whenever compressed_size = 0 (the fresh decoder and the
\* decoder that loaded an empty legacy file included) and
\* original_size / compressed_size otherwise.
C25_RatioNeverDividesByZero ==
    /\ Decoder_compression_ratio(decoder).den # 0
    /\ decoder.compressed_size = 0 =>
          Decoder_compression_ratio(decoder) = RatioOne
    /\ decoder.compressed_size # 0 =>
          /\ Decoder_compression_ratio(decoder).num = decoder.original_size
          /\ Decoder_compression_ratio(decoder).den = decoder.compressed_size
    /\ arg = None => Decoder_compression_ratio(decoder) = RatioOne
    /\ arg = Some(<<"empty", "alice">>) /\ ret = Some(Ok("unit")) =>
          Decoder_compression_ratio(decoder) = RatioOne
    /\ decoder.alice_file # None =>
          /\ AliceHeader_compression_ratio(Unwrap(decoder.alice_file).header).den # 0
          /\ Unwrap(decoder.alice_file).header.compressed_size = 0 =>
                AliceHeader_compression_ratio(Unwrap(decoder.alice_file).header)
                  = RatioOne
          /\ Unwrap(decoder.alice_file).header.compressed_size # 0 =>
                AliceHeader_compression_ratio(Unwrap(decoder.alice_file).header)
                  = [num |-> Unwrap(decoder.alice_file).header.original_size,
                     den |-> Unwrap(decoder.alice_file).header.compressed_size]

\* C25 witness: the decoder holds a container whose header gives
\* compressed_size 0, loaded after the empty legacy file
C25_Witness_ZeroCompressedSize ==
    /\ pre.file_path = Some(<<"empty", "alice">>)
    /\ pre.compressed_size = 0
    /\ pre.content # None
    /\ arg = Some(<<"zerosize", "alice">>)
    /\ ret = Some(Ok("unit"))
    /\ decoder.compressed_size = 0
    /\ decoder.original_size = 4000
    /\ Unwrap(decoder.alice_file).header.compressed_size = 0
    /\ Decoder_compression_ratio(decoder) = RatioOne

\* a Q16.16 value below 0.0001 in magnitude: 0.0001 * 65536 = 6.5536
Tiny == -6..6
\* the pieces of literal text that hold an "x"
XTexts == {[text |-> "x"], [text |-> "x + "], [text |-> "x - "]}

\* C26: equation_string picks the constant form when the slope is near zero,
\* whatever the intercept; else the pure-slope form when the intercept is near
\* zero; else the "+" form for a non-negative intercept; else the "-" form
\* with the intercept's absolute value.  Every form starts with "y =", and a
\* form has an "x" exactly when it is not the constant form.
C26_EquationForms ==
    op = "LinearPayload::equation_string" =>
        /\ output[1] = [text |-> "y = "]
        /\ (\E k \in 2..Len(output) : output[k] \in XTexts)
              <=> input.slope_q16 \notin Tiny
        /\ input.slope_q16 \in Tiny =>
              /\ Len(output) = 2
              /\ output[2].decimals = 4
              /\ output[2].minus = (input.intercept_q16 < 0)
        /\ input.slope_q16 \notin Tiny =>
              /\ output[2].minus = (input.slope_q16 < 0)
              /\ output[2].decimals = 6
              /\ IF input.intercept_q16 \in Tiny
                 THEN Len(output) = 3 /\ output[3] = [text |-> "x"]
                 ELSE /\ Len(output) = 4
                      /\ output[3] =
                            [text |-> IF input.intercept_q16 >= 0 THEN "x + " ELSE "x - "]
                      /\ output[4].minus = FALSE
                      /\ output[4].decimals = 4
                      /\ input.intercept_q16 = -163840000 =>
                            output[4].magnitude = <<2500, 0>>
                      /\ input.intercept_q16 = 163840000 =>
                            output[4].magnitude = <<2500, 0>>
                      /\ input.intercept_q16 = -2147483647 - 1 =>
                            output[4].magnitude = <<32768, 0>>
                      /\ input.intercept_q16 = 2147483647 =>
                            output[4].magnitude = <<32767, 65535>>
                      /\ input.intercept_q16 = -7 =>
                            output[4].magnitude = <<0, 7>>

\* C26 witness: the "-" form with the most negative intercept
C26_Witness_MinusForm ==
    /\ op = "LinearPayload::equation_string"
    /\ input.slope_q16 = 7
    /\ input.intercept_q16 = -2147483647 - 1
    /\ Len(output) = 4
    /\ output[3] = [text |-> "x - "]
    /\ output[4].magnitude = <<32768, 0>>

\* C27: in every reachable decoder state content_type() = AliceSdf if and only
\* if sdf_content() is present, and when sdf_content() is present content()
\* and alice_file() are absent.
C27_SdfTypeIffSdfContent ==
    /\ decoder.content_type = "AliceSdf" <=> decoder.sdf_content # None
    /\ decoder.sdf_content # None =>
          decoder.content = None /\ decoder.alice_file = None

\* C28: a frame rendered while the decoder holds a scene left by a successful
\* load (dropped, picked in the dialog, or the initial file) is rendered with
\* the pipeline rebuilt from that scene's WGSL, and the pipeline is rebuilt at
\* most once per load.
C28_SceneWgslReachesRenderer ==
    /\ (frame # None /\ Unwrap(frame).scene # None) =>
          Unwrap(frame).pipeline =
             Some([transpiled |-> Unwrap(Unwrap(frame).scene).tree])
    /\ rebuilds <= returned + (IF arg # None /\ started = <<>> THEN 1 ELSE 0)
    /\ rebuilds <= Len(started) + 1

\* C29: once Ui::update has processed a queued load, the panel's
\* dynamic-scene flag is true exactly when the decoder holds a scene and the
\* file-info record is present exactly when the decoder holds a container.
C29_UiMirrorsDecoder ==
    (returned > 0 /\ pc \in {"recv", "render", "events"}) =>
        /\ has_dynamic_sdf <=> decoder.sdf_content # None
        /\ current_file_info # None <=> decoder.alice_file # None

\* the path with its extension in lower case
LowerExt(p) == [p EXCEPT ![Len(p)] = ToLowercase(p[Len(p)])]
\* what load() of the lower-case twin of the path just loaded gives from the
\* same decoder
Twin == load(pre, LowerExt(ArgPath), Stat(LowerExt(ArgPath)), tokio)

\* C30: a path whose extension is written in upper case is routed to the same
\* loader as its lower-case twin and gives the same outcome: the same result
\* of load() and the same kind of content in the decoder.
C30_ExtensionCaseInsensitive ==
    (IsSome(arg) /\ LowerExt(ArgPath) # ArgPath /\ Exists(ArgPath)
        /\ Exists(LowerExt(ArgPath))) =>
        /\ route = Twin.route
        /\ Unwrap(ret) = Twin.ret
        /\ decoder.content_type = Twin.dec.content_type
        /\ decoder.sdf_content = None <=> Twin.dec.sdf_content = None
        /\ decoder.alice_file = Twin.dec.alice_file
        /\ decoder.content = None <=> Twin.dec.content = None

=============================================================================
